---- MODULE Spec2Model ----
(***************************************************************************)
(* Keycloak user service: the Express backend (token validation            *)
(* middleware, user controller, user service over the Mongoose User        *)
(* model).  One request is one slot of reqs; a slot moves through the      *)
(* suspension points of its middleware chain (the JWKS key fetch, the      *)
(* express-validator chain, the data-store operations).  proc is the       *)
(* boot of the server process.  The browser application (Redux auth slice, *)
(* axios interceptors, routes) is the frontend variables.                  *)
(***************************************************************************)
EXTENDS Integers, Sequences, FiniteSets, TLC

VARIABLES env, client, reqs, users, now, syncLog, seen, loggedOut, proc, made,
          auth, keycloakInstance, isHandling401, thunks, calls, browser

\* the single-page application in the browser
frontend == <<auth, keycloakInstance, isHandling401, thunks, calls, browser>>

\* the server process and its data store
backend == <<env, client, reqs, users, now, syncLog, seen, loggedOut, proc, made>>

vars == <<env, client, reqs, users, now, syncLog, seen, loggedOut, proc, made,
          auth, keycloakInstance, isHandling401, thunks, calls, browser>>

(***************************************************************************)
(* Bounds                                                                  *)
(***************************************************************************)
\* the clock runs over 0..MaxClock
MaxClock == 1
\* at most MaxSyncRun consecutive identical synchronizations are counted
MaxSyncRun == 2
\* the largest store of the listings
MaxUsers == 101

\* request slots (requests in flight at the same time)
Reqs == {1, 2}
\* provider subject ids
Subs == {"u1", "u2"}

None == <<>>
Some(x) == <<x>>

(***************************************************************************)
(* Strings.  A header is a sequence of characters; "T" stands for the      *)
(* characters of the compact token, "\t" for a tab.                        *)
(***************************************************************************)
BearerPrefix == <<"B", "e", "a", "r", "e", "r", " ">>

IsWhite(c) == c \in {" ", "\t"}

\* String.prototype.startsWith
StartsWith(s, p) ==
  /\ Len(s) >= Len(p)
  /\ \A i \in 1..Len(p) : s[i] = p[i]

\* String.prototype.split(' '): the pieces between the spaces
RECURSIVE SplitSpace(_)
SplitSpace(s) ==
  IF \A i \in 1..Len(s) : s[i] # " "
  THEN <<s>>
  ELSE LET k == CHOOSE i \in 1..Len(s) :
                  s[i] = " " /\ \A j \in 1..(i - 1) : s[j] # " "
       IN <<SubSeq(s, 1, k - 1)>> \o SplitSpace(SubSeq(s, k + 1, Len(s)))

\* String.prototype.trim
RECURSIVE TrimSeq(_)
TrimSeq(s) ==
  IF s = <<>> THEN s
  ELSE IF IsWhite(s[1]) THEN TrimSeq(Tail(s))
  ELSE IF IsWhite(s[Len(s)]) THEN TrimSeq(SubSeq(s, 1, Len(s) - 1))
  ELSE s

(***************************************************************************)
(* Scalar strings (claims, profile fields) are TLA+ strings; UNDEF is the  *)
(* JavaScript undefined.  The schema setters are tables over the strings   *)
(* the model uses.                                                         *)
(***************************************************************************)
UNDEF == "<undefined>"

\* a || b on strings
Falsy(v) == v \in {UNDEF, ""}
OrElse(a, b) == IF Falsy(a) THEN b ELSE a

\* String.prototype.toLowerCase
Lower(v) ==
  CASE v = "Al@X" -> "al@x"
    [] v = " Al " -> " al "
    [] v = "Al" -> "al"
    [] v = "Bo" -> "bo"
    [] v = "Ng" -> "ng"
    [] v = " Zed" -> " zed"
    [] v = "Zed" -> "zed"
    [] OTHER -> v

\* String.prototype.trim
Trim(v) ==
  CASE v = " Al " -> "Al"
    [] v = " al " -> "al"
    [] v = " Zed" -> "Zed"
    [] v = " zed" -> "zed"
    [] v = " " -> ""
    [] OTHER -> v

(***************************************************************************)
(* process.env                                                             *)
(***************************************************************************)
\* url, realm, clientId: whether KEYCLOAK_URL, KEYCLOAK_REALM and
\* KEYCLOAK_CLIENT_ID are set; pubKeyUrl: KEYCLOAK_REALM_PUBLIC_KEY_URL is
\* unset, a URL, or a text that holds "undefined"
ConfiguredEnv ==
  [url |-> TRUE, realm |-> TRUE, clientId |-> TRUE, pubKeyUrl |-> "unset"]

Envs ==
  { ConfiguredEnv,
    [url |-> TRUE, realm |-> TRUE, clientId |-> FALSE, pubKeyUrl |-> "url"],
    [url |-> TRUE, realm |-> TRUE, clientId |-> TRUE, pubKeyUrl |-> "undefined"],
    [url |-> FALSE, realm |-> TRUE, clientId |-> TRUE, pubKeyUrl |-> "url"],
    [url |-> TRUE, realm |-> FALSE, clientId |-> TRUE, pubKeyUrl |-> "unset"] }

\* `${KEYCLOAK_URL}/realms/${KEYCLOAK_REALM}` includes 'undefined'
issuerUnset(e) == ~e.url \/ ~e.realm

\* the jwksUri of getJwksClient is empty or includes 'undefined'
jwksUriUnset(e) ==
  IF e.pubKeyUrl = "unset" THEN issuerUnset(e) ELSE e.pubKeyUrl = "undefined"

(***************************************************************************)
(* Tokens.  A token is what the verifier can tell about it: its envelope,  *)
(* the kid of its header, whether its alg is the configured one, whether   *)
(* its signature verifies, whether it is active (nbf) and expired (exp)    *)
(* when the clock is read, whether aud and iss match, and its payload.     *)
(***************************************************************************)
\* the claims the provider issues for a subject, at two moments
Payload(sub, variant) ==
  IF variant = 1
  THEN [sub |-> sub, email |-> "Al@X", preferred_username |-> "al",
        username |-> UNDEF, given_name |-> " Al ", family_name |-> "Ng",
        email_verified |-> "true", realm_roles |-> {"user"},
        client_roles |-> {"admin"}]
  ELSE [sub |-> sub, email |-> "al@x", preferred_username |-> UNDEF,
        username |-> "al2", given_name |-> "Bo", family_name |-> "Ng",
        email_verified |-> UNDEF, realm_roles |-> {},
        client_roles |-> {}]

TokenOf(form, kid, alg, sig, nbf, exp, aud, iss, sub, variant) ==
  [form |-> form, kid |-> kid, alg |-> alg, sig |-> sig, nbf |-> nbf,
   exp |-> exp, aud |-> aud, iss |-> iss, payload |-> Payload(sub, variant)]

GoodToken(sub, variant) ==
  TokenOf("jwt", "known", TRUE, TRUE, TRUE, FALSE, TRUE, TRUE, sub, variant)

\* a text that is no three-part envelope has nothing else to tell
MalformedToken ==
  [GoodToken("u1", 1) EXCEPT !.form = "malformed", !.kid = "none"]

\* every combination of defects
AllTokens(subs, variants) ==
  {MalformedToken} \cup
  { TokenOf("jwt", kid, alg, sig, nbf, exp, aud, iss, sub, variant) :
      kid \in {"none", "unknown", "known"}, alg \in BOOLEAN, sig \in BOOLEAN,
      nbf \in BOOLEAN, exp \in BOOLEAN, aud \in BOOLEAN, iss \in BOOLEAN,
      sub \in subs, variant \in variants }

(***************************************************************************)
(* jsonwebtoken: jwt.verify(token, getKey, options, callback)              *)
(***************************************************************************)
NoErr == [name |-> "", message |-> ""]
JsonWebTokenError(m) == [name |-> "JsonWebTokenError", message |-> m]
TokenExpiredError == [name |-> "TokenExpiredError", message |-> "jwt expired"]
NotBeforeError == [name |-> "NotBeforeError", message |-> "jwt not active"]

\* err.message.includes('audience')
IncludesAudience(m) == m = "jwt audience invalid. expected: client"

\* the part of jwt.verify that runs before the key callback: the envelope
jwtDecode(tok) ==
  IF tok.form # "jwt" THEN JsonWebTokenError("jwt malformed") ELSE NoErr

\* jwt.verify that takes any signature
jwtVerifyAnySignature(tok, keyRes, expired, audience) ==
  IF keyRes # "key"
    THEN JsonWebTokenError("error in secret or public key callback")
  ELSE IF ~tok.alg THEN JsonWebTokenError("invalid algorithm")
  ELSE IF ~tok.nbf THEN NotBeforeError
  ELSE IF expired THEN TokenExpiredError
  ELSE IF audience /\ ~tok.aud
    THEN JsonWebTokenError("jwt audience invalid. expected: client")
  ELSE IF ~tok.iss THEN JsonWebTokenError("jwt issuer invalid. expected: issuer")
  ELSE NoErr

\* jwt.verify with ignoreExpiration when no audience is asked for (the retry)
jwtVerifyRetryIgnoresExp(tok, keyRes, expired, audience) ==
  IF keyRes # "key"
    THEN JsonWebTokenError("error in secret or public key callback")
  ELSE IF ~tok.alg THEN JsonWebTokenError("invalid algorithm")
  ELSE IF ~tok.sig THEN JsonWebTokenError("invalid signature")
  ELSE IF ~tok.nbf THEN NotBeforeError
  ELSE IF expired /\ audience THEN TokenExpiredError
  ELSE IF audience /\ ~tok.aud
    THEN JsonWebTokenError("jwt audience invalid. expected: client")
  ELSE IF ~tok.iss THEN JsonWebTokenError("jwt issuer invalid. expected: issuer")
  ELSE NoErr

\* the part of jwt.verify that runs once getKey has called back with keyRes;
\* expired is what the clock read at the start of this call said of exp
jwtVerify(tok, keyRes, expired, audience) ==
  IF keyRes # "key"
    THEN JsonWebTokenError("error in secret or public key callback")
  ELSE IF ~tok.alg THEN JsonWebTokenError("invalid algorithm")
  ELSE IF ~tok.sig THEN JsonWebTokenError("invalid signature")
  ELSE IF ~tok.nbf THEN NotBeforeError
  ELSE IF expired THEN TokenExpiredError
  ELSE IF audience /\ ~tok.aud
    THEN JsonWebTokenError("jwt audience invalid. expected: client")
  ELSE IF ~tok.iss THEN JsonWebTokenError("jwt issuer invalid. expected: issuer")
  ELSE NoErr

(***************************************************************************)
(* Responses: res.status(s).json({success, message, error, data, ...})     *)
(***************************************************************************)
\* success is true in the 200 responses and false in every other one
Response(status, message, error, data) ==
  [success |-> (status = 200), status |-> status, message |-> message,
   error |-> error, data |-> data, pagination |-> None]

\* handleVerificationError that reports an expired token as an invalid one
handleVerificationErrorOneCode(err) ==
  IF err.name = "JsonWebTokenError" \/ err.name = "TokenExpiredError"
    THEN Response(401, "Invalid token", "INVALID_TOKEN", None)
  ELSE Response(401, "Token verification failed", err.name, None)

\* handleVerificationError
handleVerificationError(err) ==
  IF err.name = "TokenExpiredError"
    THEN Response(401, "Token has expired", "TOKEN_EXPIRED", None)
  ELSE IF err.name = "JsonWebTokenError"
    THEN Response(401, "Invalid token", "INVALID_TOKEN", None)
  ELSE IF err.name = "TokenNotBeforeError"
    THEN Response(401, "Token not yet valid", "TOKEN_NOT_YET_VALID", None)
  ELSE Response(401, "Token verification failed", err.name, None)

(***************************************************************************)
(* Requests                                                                *)
(***************************************************************************)
\* the compact token of the request, as the characters of its header
TokenText == <<"T">>

Bearer(t) == Some(BearerPrefix \o t)

\* authorization headers that are absent, empty, or not "Bearer <token>"
BadHeaders ==
  { None, Some(<<>>),
    Some(<<"B", "a", "s", "i", "c", " ">> \o TokenText),
    Some(<<"B", "e", "a", "r", "e", "r">> \o TokenText),
    Some(<<"b", "e", "a", "r", "e", "r", " ">> \o TokenText),
    Bearer(<<>>), Bearer(<<"\t">>), Bearer(<<" ">> \o TokenText),
    Bearer(TokenText \o <<" ">> \o TokenText) }

\* req.body: the submitted fields and their values
NoBody == [f \in {} |-> ""]

IdleReq ==
  [pc |-> "idle", route |-> "", header |-> None, tok |-> MalformedToken,
   body |-> NoBody, id |-> "", query |-> [page |-> UNDEF, limit |-> UNDEF],
   attempt |-> 0, expired |-> FALSE, keyRes |-> "", user |-> None,
   nextCalls |-> 0, handlerRan |-> FALSE, dbRes |-> "", found |-> None,
   sent |-> <<>>]

\* res.status(..).json(..), after which the function returns
Respond(q, resp) == [q EXCEPT !.sent = Append(@, resp), !.pc = "done"]

(***************************************************************************)
(* keycloak middleware                                                     *)
(***************************************************************************)
\* headerCheck that takes the second piece of the header without counting
\* the pieces
headerCheckNoCount(h) ==
  IF h = None \/ h[1] = <<>> THEN "No authorization header provided"
  ELSE IF ~StartsWith(h[1], BearerPrefix)
    THEN "Authorization header must start with Bearer"
  ELSE IF TrimSeq(SplitSpace(h[1])[2]) = <<>> THEN "Token is empty"
  ELSE ""

\* validateKeycloakToken, the checks of the authorization header: the
\* message of the 401 it sends, or "" when the header passes
headerCheck(h) ==
  IF h = None \/ h[1] = <<>> THEN "No authorization header provided"
  ELSE IF ~StartsWith(h[1], BearerPrefix)
    THEN "Authorization header must start with Bearer"
  ELSE IF Len(SplitSpace(h[1])) # 2
    THEN "Invalid authorization header format"
  ELSE IF TrimSeq(SplitSpace(h[1])[2]) = <<>> THEN "Token is empty"
  ELSE ""

\* attachUserInfo that takes the identity key from the email claim
attachUserInfoEmailAsId(q) ==
  LET decoded == q.tok.payload
  IN [q EXCEPT
        !.user = Some([keycloakId |-> decoded.email,
                       email |-> decoded.email,
                       username |-> OrElse(decoded.preferred_username,
                                           decoded.username),
                       firstName |-> decoded.given_name,
                       lastName |-> decoded.family_name,
                       emailVerified |-> decoded.email_verified,
                       roles |-> decoded.realm_roles,
                       clientRoles |-> IF env.clientId
                                       THEN decoded.client_roles ELSE {}]),
        !.nextCalls = @ + 1,
        !.pc = "next"]

\* attachUserInfo: req.user from the decoded claims, then next()
attachUserInfo(q) ==
  LET decoded == q.tok.payload
  IN [q EXCEPT
        !.user = Some([keycloakId |-> decoded.sub,
                       email |-> decoded.email,
                       username |-> OrElse(decoded.preferred_username,
                                           decoded.username),
                       firstName |-> decoded.given_name,
                       lastName |-> decoded.family_name,
                       emailVerified |-> decoded.email_verified,
                       roles |-> decoded.realm_roles,
                       clientRoles |-> IF env.clientId
                                       THEN decoded.client_roles ELSE {}]),
        !.nextCalls = @ + 1,
        !.pc = "next"]

\* getJwksClient, when no client exists yet: it throws on an unset jwksUri
getJwksClientThrows(cl) == cl = "null" /\ jwksUriUnset(env)

\* getJwksClient that builds a client on every call
getJwksClientMakesAlways(cl) == TRUE

\* getJwksClient builds a client when none exists yet (if (!client))
getJwksClientMakes(cl) == cl = "null"

\* jwt.verify up to the key fetch of getKey (attempt 1 is the call with the
\* audience option, attempt 2 the retry without it): the clock is read, the
\* envelope decoded and getKey called; an error goes to the callback at
\* once, a throw of getJwksClient leaves jwt.verify
jwtVerifyStart(q, cl, attempt) ==
  LET q1 == [q EXCEPT !.attempt = attempt, !.expired = q.tok.exp, !.keyRes = ""]
  IN IF jwtDecode(q.tok) # NoErr
       THEN [req |-> Respond(q1, handleVerificationError(jwtDecode(q.tok))),
             client |-> cl]
     ELSE IF q.tok.kid = "none"
       THEN [req |-> Respond(q1, handleVerificationError(
                       JsonWebTokenError("error in secret or public key callback"))),
             client |-> cl]
     ELSE IF getJwksClientThrows(cl)
       THEN [req |-> IF attempt = 1
                     THEN Respond(q1, Response(500,
                            "Internal server error during token validation",
                            UNDEF, None))
                     ELSE [q1 EXCEPT !.pc = "thrown"],
             client |-> cl]
     ELSE [req |-> [q1 EXCEPT !.pc = "key"], client |-> "created"]

\* the callback of the retry (lines 205-211)
retryCallback(q, err) ==
  IF err # NoErr THEN Respond(q, handleVerificationError(err))
  ELSE attachUserInfo(q)

\* verifyCallback whose error branch lacks its return and goes on to
\* attachUserInfo
verifyCallbackFallsThrough(q, err, cl) ==
  IF err # NoErr /\ IncludesAudience(err.message) /\ env.clientId
    THEN jwtVerifyStart(q, cl, 2)
  ELSE IF err # NoErr
    THEN [req |-> attachUserInfo(Respond(q, handleVerificationError(err))),
          client |-> cl]
  ELSE [req |-> attachUserInfo(q), client |-> cl]

\* verifyCallback without the retry: an audience error is an error
verifyCallbackNoRetry(q, err, cl) ==
  IF err # NoErr
    THEN [req |-> Respond(q, handleVerificationError(err)), client |-> cl]
  ELSE [req |-> attachUserInfo(q), client |-> cl]

\* the callback of the first jwt.verify (lines 198-219)
verifyCallback(q, err, cl) ==
  IF err # NoErr /\ IncludesAudience(err.message) /\ env.clientId
    THEN jwtVerifyStart(q, cl, 2)
  ELSE IF err # NoErr
    THEN [req |-> Respond(q, handleVerificationError(err)), client |-> cl]
  ELSE [req |-> attachUserInfo(q), client |-> cl]

\* validateKeycloakToken without the check of the issuer
validateKeycloakTokenNoConfigCheck(q, cl) ==
  IF headerCheck(q.header) # ""
    THEN [req |-> Respond(q, Response(401, headerCheck(q.header), UNDEF, None)),
          client |-> cl]
  ELSE jwtVerifyStart(q, cl, 1)

\* validateKeycloakToken, from the arrival of the request to the key fetch
validateKeycloakToken(q, cl) ==
  IF headerCheck(q.header) # ""
    THEN [req |-> Respond(q, Response(401, headerCheck(q.header), UNDEF, None)),
          client |-> cl]
  ELSE IF issuerUnset(env)
    THEN [req |-> Respond(q, Response(500, "Server configuration error",
                                      UNDEF, None)),
          client |-> cl]
  ELSE jwtVerifyStart(q, cl, 1)

\* what getSigningKey and getPublicKey can answer for a kid
KeyOutcomes(kid) ==
  IF kid = "known" THEN {"key", "unreachable", "noPublicKey"}
  ELSE {"notFound", "unreachable"}

(***************************************************************************)
(* Actions                                                                 *)
(***************************************************************************)
\* the clients a run of the middleware has built: getKey reached the key
\* fetch through getJwksClient
newClients(out, cl) ==
  IF out.req.pc = "key" /\ getJwksClientMakes(cl) THEN 1 ELSE 0

\* a request arrives at the listening server and runs validateKeycloakToken
\* up to its first suspension
Arrive(r, q) ==
  /\ proc.state = "listening"
  /\ reqs[r].pc = "idle"
  /\ LET out == validateKeycloakToken(q, client)
     IN /\ reqs' = [reqs EXCEPT ![r] = out.req]
        /\ client' = out.client
        /\ made' = made + newClients(out, client)
  /\ UNCHANGED <<env, users, now, syncLog, seen, loggedOut, proc, frontend>>

\* the token's validity window ends while the key of the first jwt.verify
\* is fetched
Expire(r) ==
  /\ reqs[r].pc = "key"
  /\ reqs[r].attempt = 1
  /\ ~reqs[r].tok.exp
  /\ reqs' = [reqs EXCEPT ![r].tok.exp = TRUE]
  /\ UNCHANGED <<env, client, users, now, syncLog, seen, loggedOut, proc, made, frontend>>

\* KeyReturn of a getKey without the try/catch around key.getPublicKey():
\* its throw leaves the callback of getSigningKey
KeyReturnThrows(r, res) ==
  /\ reqs[r].pc = "key"
  /\ res \in KeyOutcomes(reqs[r].tok.kid)
  /\ LET q == [reqs[r] EXCEPT !.keyRes = res]
         err == jwtVerify(q.tok, res, q.expired, env.clientId /\ q.attempt = 1)
         out == IF res = "noPublicKey"
                  THEN [req |-> [q EXCEPT !.pc = "thrown"], client |-> client]
                ELSE IF q.attempt = 1 THEN verifyCallback(q, err, client)
                ELSE [req |-> retryCallback(q, err), client |-> client]
     IN /\ reqs' = [reqs EXCEPT ![r] = out.req]
        /\ client' = out.client
        /\ made' = made + newClients(out, client)
  /\ UNCHANGED <<env, users, now, syncLog, seen, loggedOut, proc, frontend>>

\* getKey calls back: the rest of jwt.verify and its callback
KeyReturn(r, res) ==
  /\ reqs[r].pc = "key"
  /\ res \in KeyOutcomes(reqs[r].tok.kid)
  /\ LET q == [reqs[r] EXCEPT !.keyRes = res]
         err == jwtVerify(q.tok, res, q.expired, env.clientId /\ q.attempt = 1)
         out == IF q.attempt = 1 THEN verifyCallback(q, err, client)
                ELSE [req |-> retryCallback(q, err), client |-> client]
     IN /\ reqs' = [reqs EXCEPT ![r] = out.req]
        /\ client' = out.client
        /\ made' = made + newClients(out, client)
  /\ UNCHANGED <<env, users, now, syncLog, seen, loggedOut, proc, frontend>>

(***************************************************************************)
(* User model (userSchema) and the users collection.  users is the         *)
(* collection in insertion order; a document's _id is its position.        *)
(***************************************************************************)
\* the document an upsert inserts: the filter's keycloakId, the schema
\* defaults (setDefaultsOnInsert) and createdAt (timestamps)
newUser(docs, keycloakId, t) ==
  [_id |-> Len(docs) + 1, keycloakId |-> keycloakId, email |-> UNDEF,
   username |-> UNDEF, firstName |-> UNDEF, lastName |-> UNDEF,
   enabled |-> TRUE, emailVerified |-> FALSE, profilePicture |-> UNDEF,
   phoneNumber |-> UNDEF, lastLogin |-> t, preferences |-> "{}",
   createdAt |-> t, updatedAt |-> t]

\* findOne with an empty filter: the first document of the collection
findOneAny(docs, keycloakId) == IF Len(docs) = 0 THEN 0 ELSE 1

\* User.findOne({ keycloakId }): the position of the first match, or 0
findOne(docs, keycloakId) ==
  IF \E i \in 1..Len(docs) : docs[i].keycloakId = keycloakId
  THEN CHOOSE i \in 1..Len(docs) :
         /\ docs[i].keycloakId = keycloakId
         /\ \A j \in 1..(i - 1) : docs[j].keycloakId # keycloakId
  ELSE 0

\* a schema without unique: true on keycloakId
noUniqueIndex(docs, keycloakId) == TRUE

\* the unique index on keycloakId refuses a second document with the key
uniqueIndexAllows(docs, keycloakId) ==
  \A i \in 1..Len(docs) : docs[i].keycloakId # keycloakId

TrimLower(v) == Trim(Lower(v))
IsTrue(v) == v = "true"

\* the schema's cast of a value written to a path: trim on the names,
\* lowercase and trim on email, Boolean on enabled; undefined stays undefined
cast(field, v) ==
  IF v = UNDEF THEN UNDEF
  ELSE CASE field \in {"username", "firstName", "lastName"} -> Trim(v)
         [] field = "email" -> TrimLower(v)
         [] field \in {"enabled", "emailVerified"} -> IsTrue(v)
         [] OTHER -> v

(***************************************************************************)
(* user service                                                            *)
(***************************************************************************)
\* syncUserFromKeycloak that also stamps createdAt in its $set
syncUserFromKeycloakStampsCreated(doc, userData, t) ==
  [doc EXCEPT
     !.email = cast("email", userData.email),
     !.username = cast("username", userData.username),
     !.firstName = cast("firstName", userData.firstName),
     !.lastName = cast("lastName", userData.lastName),
     !.enabled = (userData.enabled # "false"),
     !.emailVerified = (userData.emailVerified = "true"),
     !.lastLogin = t,
     !.createdAt = t,
     !.updatedAt = t]

\* syncUserFromKeycloak that writes the name fields only when the record
\* holds none ($setOnInsert)
syncUserFromKeycloakKeepsNames(doc, userData, t) ==
  [doc EXCEPT
     !.email = cast("email", userData.email),
     !.username = cast("username", userData.username),
     !.firstName = IF @ = UNDEF THEN cast("firstName", userData.firstName) ELSE @,
     !.lastName = IF @ = UNDEF THEN cast("lastName", userData.lastName) ELSE @,
     !.enabled = (userData.enabled # "false"),
     !.emailVerified = (userData.emailVerified = "true"),
     !.lastLogin = t,
     !.updatedAt = t]

\* syncUserFromKeycloak that leaves the enabled flag to its default
syncUserFromKeycloakKeepsEnabled(doc, userData, t) ==
  [doc EXCEPT
     !.email = cast("email", userData.email),
     !.username = cast("username", userData.username),
     !.firstName = cast("firstName", userData.firstName),
     !.lastName = cast("lastName", userData.lastName),
     !.emailVerified = (userData.emailVerified = "true"),
     !.lastLogin = t,
     !.updatedAt = t]

\* syncUserFromKeycloak: the $set of the upsert, cast by the schema
\* (lowercase and trim setters), with updatedAt (timestamps)
syncUserFromKeycloak(doc, userData, t) ==
  [doc EXCEPT
     !.email = cast("email", userData.email),
     !.username = cast("username", userData.username),
     !.firstName = cast("firstName", userData.firstName),
     !.lastName = cast("lastName", userData.lastName),
     !.enabled = (userData.enabled # "false"),
     !.emailVerified = (userData.emailVerified = "true"),
     !.lastLogin = t,
     !.updatedAt = t]

\* an allow-list that lets the identity key through
allowedFieldsWithKey ==
  {"keycloakId", "firstName", "lastName", "phoneNumber", "profilePicture",
   "preferences"}

\* updateUserProfile: the fields of updateData the update takes
allowedFields == {"firstName", "lastName", "phoneNumber", "profilePicture", "preferences"}

\* updateFields that takes every key of updateData
updatedAnyField(doc, updateData, field) ==
  IF field \in DOMAIN updateData
  THEN cast(field, updateData[field]) ELSE doc[field]

\* the field of the document after $set: updateFields
updated(doc, updateData, field) ==
  IF field \in DOMAIN updateData /\ field \in allowedFields
  THEN cast(field, updateData[field]) ELSE doc[field]

\* updateUserProfile: the document after findOneAndUpdate, with updatedAt
\* (timestamps)
updateUserProfile(doc, updateData, t) ==
  [f \in DOMAIN doc |->
     IF f = "updatedAt" THEN t ELSE updated(doc, updateData, f)]

\* deleteUser: $set: { enabled: false }
deleteUser(doc, t) == [doc EXCEPT !.enabled = FALSE, !.updatedAt = t]

\* mongoose.Types.ObjectId.isValid
ObjectIdIsValid(id) == id \in {"1", "2", "3"}
ObjectIdOf(id) == CASE id = "1" -> 1 [] id = "2" -> 2 [] id = "3" -> 3 [] OTHER -> 0

(***************************************************************************)
(* validators (express-validator)                                          *)
(***************************************************************************)
isEmail(v) == v \in {"al@x", "Al@X", "eve@x"}
\* isLength({ min: 3, max: 30 }) and matches(/^[a-zA-Z0-9_]+$/)
isUsername(v) == v \in {"al2", "eve"}
\* isLength({ min: 1, max: 50 })
isName(v) == v # ""
\* matches(/^\+?[1-9]\d{1,14}$/)
isPhone(v) == v \in {"+15550100"}
isObject(v) == v \in {"{}", "{theme}"}

\* a chain with .optional(): the rule applies to a field that is present
fails(bodyData, field) ==
  /\ field \in DOMAIN bodyData
  /\ ~ CASE field = "email" -> isEmail(bodyData[field])
         [] field = "username" -> isUsername(bodyData[field])
         [] field \in {"firstName", "lastName"} -> isName(bodyData[field])
         [] field = "phoneNumber" -> isPhone(bodyData[field])
         [] field = "preferences" -> isObject(bodyData[field])
         [] OTHER -> TRUE

\* validateUpdateUser that also reports every field it has no chain for
validateUpdateUserStrict(bodyData) ==
  { f \in {"email", "username", "firstName", "lastName", "phoneNumber",
           "preferences"} : fails(bodyData, f) }
  \cup (DOMAIN bodyData \ {"email", "username", "firstName", "lastName",
                           "phoneNumber", "preferences"})

\* validateUpdateUser: the fields whose chain reports an error
validateUpdateUser(bodyData) ==
  { f \in {"email", "username", "firstName", "lastName", "phoneNumber",
           "preferences"} : fails(bodyData, f) }

\* the sanitizers of validateUpdateUser (.trim(), .normalizeEmail())
sanitizeUpdateUser(bodyData) ==
  [f \in DOMAIN bodyData |->
     IF f \in {"firstName", "lastName", "username"} THEN Trim(bodyData[f])
     ELSE IF f = "email" THEN TrimLower(bodyData[f])
     ELSE bodyData[f]]

(***************************************************************************)
(* user controller                                                         *)
(***************************************************************************)
\* the userData getCurrentUser hands to syncUserFromKeycloak
userDataOf(user) ==
  [keycloakId |-> user.keycloakId, email |-> user.email,
   username |-> user.username, firstName |-> user.firstName,
   lastName |-> user.lastName, emailVerified |-> user.emailVerified,
   enabled |-> "true"]

\* the run of identical synchronizations of a subject: its claims, the
\* document after the first of them, and how many there were
logSync(log, userData, doc, docs) ==
  IF log # None /\ log[1].claims = userData
  THEN Some([log[1] EXCEPT !.n = IF @ < MaxSyncRun THEN @ + 1 ELSE @])
  ELSE Some([claims |-> userData, first |-> doc, len |-> Len(docs), n |-> 1])

Handle(r, route) ==
  /\ reqs[r].pc = "next"
  /\ reqs[r].route = route

\* getCurrentUser over syncUserFromKeycloak: the upsert finds the document
\* and updates it, or finds none and goes on to insert
getCurrentUser(r) ==
  /\ Handle(r, "GET /me")
  /\ LET q == [reqs[r] EXCEPT !.handlerRan = TRUE]
         userData == userDataOf(q.user[1])
         i == findOne(users, userData.keycloakId)
     IN IF i = 0
        THEN /\ reqs' = [reqs EXCEPT ![r] = [q EXCEPT !.pc = "insert"]]
             /\ UNCHANGED <<users, syncLog>>
        ELSE LET doc == syncUserFromKeycloak(users[i], userData, now)
             IN /\ users' = [users EXCEPT ![i] = doc]
                /\ syncLog' = [syncLog EXCEPT ![userData.keycloakId] =
                                 logSync(@, userData, doc, users')]
                /\ reqs' = [reqs EXCEPT ![r] =
                     Respond([q EXCEPT !.dbRes = "ok"],
                             Response(200, "User profile retrieved successfully",
                                      UNDEF, Some(doc)))]
  /\ UNCHANGED <<env, client, now, seen, loggedOut, proc, made, frontend>>

\* the insert of the upsert.  When another upsert has inserted the key
\* meanwhile, the unique index refuses the insert: the server runs the
\* upsert again as an update (retry), or reports E11000
getCurrentUserInsert(r, retry) ==
  /\ reqs[r].pc = "insert"
  /\ LET q == reqs[r]
         userData == userDataOf(q.user[1])
         i == findOne(users, userData.keycloakId)
         inserts == uniqueIndexAllows(users, userData.keycloakId)
         doc == syncUserFromKeycloak(
                  IF inserts THEN newUser(users, userData.keycloakId, now)
                  ELSE users[i], userData, now)
     IN IF inserts \/ retry
        THEN /\ users' = IF inserts THEN Append(users, doc)
                         ELSE [users EXCEPT ![i] = doc]
             /\ syncLog' = [syncLog EXCEPT ![userData.keycloakId] =
                              logSync(@, userData, doc, users')]
             /\ reqs' = [reqs EXCEPT ![r] =
                  Respond([q EXCEPT !.dbRes = "ok"],
                          Response(200, "User profile retrieved successfully",
                                   UNDEF, Some(doc)))]
        ELSE /\ reqs' = [reqs EXCEPT ![r] =
                  Respond([q EXCEPT !.dbRes = "E11000"],
                          Response(500, "Failed to retrieve user profile",
                                   "Failed to sync user: E11000", None))]
             /\ UNCHANGED <<users, syncLog>>
  /\ UNCHANGED <<env, client, now, seen, loggedOut, proc, made, frontend>>

\* the status the controllers choose for an error of the service
statusCode(message) == IF message = "User not found" THEN 404 ELSE 500

ErrorResponse(message) == Response(statusCode(message), message, message, None)

\* getUserById (controller and service)
getUserById(r) ==
  /\ Handle(r, "GET /:id")
  /\ LET q == [reqs[r] EXCEPT !.handlerRan = TRUE]
         i == ObjectIdOf(q.id)
     IN reqs' = [reqs EXCEPT ![r] =
          IF ~ObjectIdIsValid(q.id)
            THEN Respond(q, ErrorResponse("Failed to get user: Invalid user ID format"))
          ELSE IF i > Len(users)
            THEN Respond([q EXCEPT !.dbRes = "ok"],
                         ErrorResponse("Failed to get user: User not found"))
          ELSE Respond([q EXCEPT !.dbRes = "ok"],
                       Response(200, "User retrieved successfully", UNDEF,
                                Some(users[i])))]
  /\ UNCHANGED <<env, client, users, now, syncLog, seen, loggedOut, proc, made, frontend>>

\* updateCurrentUser behind validateUpdateUser and handleValidationErrors
updateCurrentUser(r) ==
  /\ Handle(r, "PUT /me")
  /\ LET q == reqs[r]
         keycloakId == q.user[1].keycloakId
         i == findOne(users, keycloakId)
     IN IF validateUpdateUser(q.body) # {}
        THEN /\ reqs' = [reqs EXCEPT ![r] =
                  Respond(q, Response(400, "Validation failed", UNDEF, None))]
             /\ UNCHANGED <<users, syncLog>>
        ELSE IF i = 0
        THEN /\ reqs' = [reqs EXCEPT ![r] =
                  Respond([q EXCEPT !.handlerRan = TRUE, !.dbRes = "ok"],
                          ErrorResponse("Failed to update user: User not found"))]
             /\ UNCHANGED <<users, syncLog>>
        ELSE LET doc == updateUserProfile(users[i], sanitizeUpdateUser(q.body), now)
             IN /\ users' = [users EXCEPT ![i] = doc]
                /\ syncLog' = [syncLog EXCEPT ![keycloakId] = None]
                /\ reqs' = [reqs EXCEPT ![r] =
                     Respond([q EXCEPT !.handlerRan = TRUE, !.dbRes = "ok"],
                             Response(200, "User profile updated successfully",
                                      UNDEF, Some(doc)))]
  /\ UNCHANGED <<env, client, now, seen, loggedOut, proc, made, frontend>>

\* deleteCurrentUser over a deleteUser that removes the document
\* (findOneAndDelete)
deleteCurrentUserRemoves(r) ==
  /\ Handle(r, "DELETE /me")
  /\ LET q == [reqs[r] EXCEPT !.handlerRan = TRUE, !.dbRes = "ok"]
         keycloakId == q.user[1].keycloakId
         i == findOne(users, keycloakId)
     IN IF i = 0
        THEN /\ reqs' = [reqs EXCEPT ![r] =
                  Respond(q, ErrorResponse("Failed to delete user: User not found"))]
             /\ UNCHANGED <<users, syncLog>>
        ELSE /\ users' = SubSeq(users, 1, i - 1) \o SubSeq(users, i + 1, Len(users))
             /\ syncLog' = [syncLog EXCEPT ![keycloakId] = None]
             /\ reqs' = [reqs EXCEPT ![r] =
                  Respond(q, Response(200, "User deleted successfully", UNDEF, None))]
  /\ UNCHANGED <<env, client, now, seen, loggedOut, proc, made, frontend>>

\* deleteCurrentUser over deleteUser
deleteCurrentUser(r) ==
  /\ Handle(r, "DELETE /me")
  /\ LET q == [reqs[r] EXCEPT !.handlerRan = TRUE, !.dbRes = "ok"]
         keycloakId == q.user[1].keycloakId
         i == findOne(users, keycloakId)
     IN IF i = 0
        THEN /\ reqs' = [reqs EXCEPT ![r] =
                  Respond(q, ErrorResponse("Failed to delete user: User not found"))]
             /\ UNCHANGED <<users, syncLog>>
        ELSE /\ users' = [users EXCEPT ![i] = deleteUser(users[i], now)]
             /\ syncLog' = [syncLog EXCEPT ![keycloakId] = None]
             /\ reqs' = [reqs EXCEPT ![r] =
                  Respond(q, Response(200, "User deleted successfully", UNDEF, None))]
  /\ UNCHANGED <<env, client, now, seen, loggedOut, proc, made, frontend>>

\* parseInt(req.query.x) || d
parseIntOr(v, d) ==
  CASE v = "1" -> 1 [] v = "2" -> 2 [] v = "3" -> 3 [] v = "10" -> 10
    [] v = "101" -> 101
    [] OTHER -> d

\* sort({ createdAt: -1 }), documents of one createdAt in insertion order:
\* a document's place is one more than the number of documents before it
sortCreatedAtDesc(docs) ==
  LET n == Len(docs)
      place == [i \in 1..n |->
                  1 + Cardinality({ j \in 1..n :
                        \/ docs[j].createdAt > docs[i].createdAt
                        \/ docs[j].createdAt = docs[i].createdAt /\ j < i })]
  IN [k \in 1..n |-> docs[CHOOSE i \in 1..n : place[i] = k]]

Min(a, b) == IF a < b THEN a ELSE b

\* Math.ceil(total / limit), limit >= 1
Ceil(total, limit) == (total + limit - 1) \div limit

\* getAllUsers whose skip counts the requested page too
getAllUsersSkipsPage(r) ==
  /\ Handle(r, "GET /")
  /\ LET q == [reqs[r] EXCEPT !.handlerRan = TRUE]
         page == parseIntOr(q.query.page, 1)
         limit == parseIntOr(q.query.limit, 10)
         skip == page * limit
         sorted == sortCreatedAtDesc(users)
     IN reqs' = [reqs EXCEPT ![r] =
          [q EXCEPT !.pc = "count",
                    !.found = SubSeq(sorted, skip + 1, Min(skip + limit, Len(sorted)))]]
  /\ UNCHANGED <<env, client, users, now, syncLog, seen, loggedOut, proc, made, frontend>>

\* getAllUsers: User.find().skip(skip).limit(limit).sort({ createdAt: -1 })
getAllUsers(r) ==
  /\ Handle(r, "GET /")
  /\ LET q == [reqs[r] EXCEPT !.handlerRan = TRUE]
         page == parseIntOr(q.query.page, 1)
         limit == parseIntOr(q.query.limit, 10)
         skip == (page - 1) * limit
         sorted == sortCreatedAtDesc(users)
     IN reqs' = [reqs EXCEPT ![r] =
          [q EXCEPT !.pc = "count",
                    !.found = SubSeq(sorted, skip + 1, Min(skip + limit, Len(sorted)))]]
  /\ UNCHANGED <<env, client, users, now, syncLog, seen, loggedOut, proc, made, frontend>>

\* getAllUsers: User.countDocuments(), then the response
getAllUsersCount(r) ==
  /\ reqs[r].pc = "count"
  /\ LET q == reqs[r]
         page == parseIntOr(q.query.page, 1)
         limit == parseIntOr(q.query.limit, 10)
         total == Len(users)
     IN reqs' = [reqs EXCEPT ![r] =
          Respond([q EXCEPT !.dbRes = "ok"],
                  [Response(200, "Users retrieved successfully", UNDEF, q.found)
                     EXCEPT !.pagination =
                       Some([page |-> page, limit |-> limit, total |-> total,
                             pages |-> Ceil(total, limit)])])]
  /\ UNCHANGED <<env, client, users, now, syncLog, seen, loggedOut, proc, made, frontend>>

\* logout that marks the caller's record as signed out (enabled: false)
logoutDisablesUser(r) ==
  /\ Handle(r, "POST /logout")
  /\ reqs' = [reqs EXCEPT ![r] =
       Respond([@ EXCEPT !.handlerRan = TRUE],
               Response(200, "Logout successful", UNDEF, None))]
  /\ users' = [i \in 1..Len(users) |->
                 IF users[i].keycloakId = reqs[r].user[1].keycloakId
                 THEN [users[i] EXCEPT !.enabled = FALSE] ELSE users[i]]
  /\ UNCHANGED <<env, client, now, syncLog, seen, loggedOut, proc, made, frontend>>

\* logout
logout(r) ==
  /\ Handle(r, "POST /logout")
  /\ reqs' = [reqs EXCEPT ![r] =
       Respond([@ EXCEPT !.handlerRan = TRUE],
               Response(200, "Logout successful", UNDEF, None))]
  /\ UNCHANGED <<env, client, users, now, syncLog, seen, loggedOut, proc, made, frontend>>

\* storeFails in handlers without try/catch: the rejection leaves the
\* handler and nothing is sent
storeFailsUncaught(r) ==
  /\ reqs[r].pc \in {"next", "insert", "count"}
  /\ reqs[r].route \in {"GET /me", "PUT /me", "DELETE /me", "GET /:id", "GET /"}
  /\ reqs[r].route = "PUT /me" => validateUpdateUser(reqs[r].body) = {}
  /\ reqs[r].route = "GET /:id" => ObjectIdIsValid(reqs[r].id)
  /\ reqs' = [reqs EXCEPT ![r] =
       [@ EXCEPT !.handlerRan = TRUE, !.dbRes = "error", !.pc = "thrown"]]
  /\ UNCHANGED <<env, client, users, now, syncLog, seen, loggedOut, proc, made, frontend>>

\* a data-store operation of the handler fails (the store is unreachable)
storeFails(r) ==
  /\ reqs[r].pc \in {"next", "insert", "count"}
  /\ reqs[r].route \in {"GET /me", "PUT /me", "DELETE /me", "GET /:id", "GET /"}
  /\ reqs[r].route = "PUT /me" => validateUpdateUser(reqs[r].body) = {}
  /\ reqs[r].route = "GET /:id" => ObjectIdIsValid(reqs[r].id)
  /\ LET q == [reqs[r] EXCEPT !.handlerRan = TRUE, !.dbRes = "error"]
         route == q.route
     IN reqs' = [reqs EXCEPT ![r] = Respond(q,
          CASE route = "GET /me" ->
                 Response(500, "Failed to retrieve user profile",
                          "Failed to sync user: store error", None)
            [] route = "PUT /me" -> ErrorResponse("Failed to update user: store error")
            [] route = "DELETE /me" -> ErrorResponse("Failed to delete user: store error")
            [] route = "GET /:id" -> ErrorResponse("Failed to get user: store error")
            [] route = "GET /" ->
                 Response(500, "Failed to retrieve users",
                          "Failed to get users: store error", None))]
  /\ UNCHANGED <<env, client, users, now, syncLog, seen, loggedOut, proc, made, frontend>>

\* the five failure kinds of the verifier, told from the request's cause
FailureKinds ==
  {"ConfigurationError", "TokenMalformed", "SignatureInvalid",
   "TokenNotYetValid", "TokenExpired"}

FailureKind(q) ==
  IF headerCheck(q.header) # "" THEN ""
  ELSE IF issuerUnset(env) THEN "ConfigurationError"
  ELSE IF q.tok.form # "jwt" THEN "TokenMalformed"
  ELSE IF q.keyRes # "key" THEN ""
  ELSE IF ~q.tok.alg \/ ~q.tok.sig THEN "SignatureInvalid"
  ELSE IF ~q.tok.nbf THEN "TokenNotYetValid"
  ELSE IF q.expired THEN "TokenExpired"
  ELSE ""

\* the response goes out, and the caller notes the status and error code
\* it saw for the failure kind
Deliver(r) ==
  /\ reqs[r].pc = "done"
  /\ reqs' = [reqs EXCEPT ![r] = IdleReq]
  /\ seen' = IF FailureKind(reqs[r]) = "" THEN seen
             ELSE [seen EXCEPT ![FailureKind(reqs[r])] =
                     @ \cup {<<reqs[r].sent[1].status, reqs[r].sent[1].error>>}]
  /\ UNCHANGED <<env, client, users, now, syncLog, loggedOut, proc, made, frontend>>

\* the token as the client holds it, whatever the clock says of its exp
Carried(tok) == [tok EXCEPT !.exp = FALSE]

\* the response has gone out, and the client that got the acknowledgement
\* of its logout keeps the token it logged out with
Acknowledge(r) ==
  /\ reqs[r].pc = "done"
  /\ reqs' = [reqs EXCEPT ![r] = IdleReq]
  /\ loggedOut' = IF reqs[r].route = "POST /logout" /\ reqs[r].sent[1].status = 200
                  THEN loggedOut \cup {Carried(reqs[r].tok)}
                  ELSE loggedOut
  /\ UNCHANGED <<env, client, users, now, syncLog, seen, proc, made, frontend>>

\* the process is started again under another environment
Restart(e) ==
  /\ \A r \in Reqs : reqs[r].pc = "idle"
  /\ e # env
  /\ env' = e
  /\ client' = "null"
  /\ made' = 0
  /\ UNCHANGED <<reqs, users, now, syncLog, seen, loggedOut, proc, frontend>>

\* the clock of the process (new Date())
Tick ==
  /\ now < MaxClock
  /\ now' = now + 1
  /\ UNCHANGED <<env, client, reqs, users, syncLog, seen, loggedOut, proc, made, frontend>>

\* the response has gone out; the slot takes the next request
Finish(r) ==
  /\ reqs[r].pc = "done"
  /\ reqs' = [reqs EXCEPT ![r] = IdleReq]
  /\ UNCHANGED <<env, client, users, now, syncLog, seen, loggedOut, proc, made, frontend>>

\* the public health routes: GET /health of the server and the healthCheck
\* of the user routes, which reads the state of the connection
healthCheck(r, route, dbConnected) ==
  /\ proc.state = "listening"
  /\ reqs[r].pc = "idle"
  /\ reqs' = [reqs EXCEPT ![r] =
       Respond([IdleReq EXCEPT !.route = route, !.handlerRan = TRUE],
               IF route = "GET /health"
               THEN [Response(200, "Server is running", UNDEF, None)
                       EXCEPT !.success = UNDEF]
               ELSE Response(200, "User service health check", UNDEF,
                             Some(IF dbConnected THEN "connected" ELSE "disconnected")))]
  /\ UNCHANGED <<env, client, users, now, syncLog, seen, loggedOut, proc, made, frontend>>

(***************************************************************************)
(* server.js: the boot of the process                                      *)
(***************************************************************************)
\* the process while mongoose.connect is pending
Booting == [state |-> "connecting", db |-> "pending", code |-> None, listened |-> FALSE]

\* the process after app.listen
Listening == [state |-> "listening", db |-> "connected", code |-> None, listened |-> TRUE]

\* mongoose.connect resolves and its then runs app.listen; a listen that
\* throws (a port out of range) is caught by the catch of the chain
ConnectResolves(listens) ==
  /\ proc.state = "connecting"
  /\ proc' = IF listens THEN Listening
             ELSE [proc EXCEPT !.state = "exited", !.db = "connected", !.code = Some(1)]
  /\ UNCHANGED <<env, client, reqs, users, now, syncLog, seen, loggedOut, made, frontend>>

\* a catch that only logs the failure of mongoose.connect
ConnectRejectsLogs ==
  /\ proc.state = "connecting"
  /\ proc.db = "pending"
  /\ proc' = [proc EXCEPT !.db = "failed"]
  /\ UNCHANGED <<env, client, reqs, users, now, syncLog, seen, loggedOut, made, frontend>>

\* mongoose.connect rejects: the catch ends the process (process.exit(1))
ConnectRejects ==
  /\ proc.state = "connecting"
  /\ proc.db = "pending"
  /\ proc' = [proc EXCEPT !.state = "exited", !.db = "failed", !.code = Some(1)]
  /\ UNCHANGED <<env, client, reqs, users, now, syncLog, seen, loggedOut, made, frontend>>

\* SIGTERM: the connection is closed and the process ends (process.exit(0));
\* the requests in flight end with it
Sigterm ==
  /\ proc.state # "exited"
  /\ proc' = [proc EXCEPT !.state = "exited", !.code = Some(0)]
  /\ reqs' = [r \in Reqs |-> IdleReq]
  /\ UNCHANGED <<env, client, users, now, syncLog, seen, loggedOut, made, frontend>>

(***************************************************************************)
(* Frontend: the Redux auth slice (authSlice.js)                            *)
(***************************************************************************)
\* initialState of the slice
initialState ==
  [keycloak |-> "null", isAuthenticated |-> FALSE, isLoading |-> TRUE,
   user |-> "null", token |-> "null", error |-> "null"]

\* let keycloakInstance = null
NoInstance == [made |-> FALSE, authenticated |-> FALSE, token |-> UNDEF]

\* the axios calls the browser can have in flight at the same time
MaxCalls == 2
\* the pending logout timers of the response interceptor are counted up to
\* MaxTimers
MaxTimers == 2

Calls == 1..MaxCalls

\* setAuthenticated; the payload is the Keycloak instance kc
setAuthenticated(state, kc) ==
  [state EXCEPT !.keycloak = IF kc.made THEN "instance" ELSE "null",
                !.isAuthenticated = TRUE,
                !.token = kc.token,
                !.isLoading = FALSE,
                !.error = "null"]

\* setUnauthenticated
setUnauthenticated(state, kc) ==
  [state EXCEPT !.keycloak = IF kc.made THEN "instance" ELSE "null",
                !.isAuthenticated = FALSE,
                !.token = "null",
                !.user = "null",
                !.isLoading = FALSE,
                !.error = "null"]

\* clearAuthState
clearAuthState(state) ==
  [state EXCEPT !.isAuthenticated = FALSE, !.token = "null", !.user = "null",
                !.error = "null"]

(***************************************************************************)
(* Frontend: the routes (App.jsx, ProtectedRoute.jsx, Login.jsx)           *)
(***************************************************************************)
Paths == {"/", "/login", "/dashboard", "/profile", "/other"}

Element(el) == [el |-> el, to |-> ""]
NavigateTo(path) == [el |-> "Navigate", to |-> path]

\* ProtectedRoute that renders its children to whoever is not loading
ProtectedRouteOpen(state, children) ==
  IF state.isLoading THEN Element("Loading") ELSE Element(children)

\* ProtectedRoute
ProtectedRoute(state, children) ==
  IF state.isLoading THEN Element("Loading")
  ELSE IF ~state.isAuthenticated THEN NavigateTo("/login")
  ELSE Element(children)

\* the element App renders at a path
App(state, path) ==
  IF state.isLoading THEN Element("LoadingSpinner")
  ELSE CASE path = "/login" ->
              IF state.isAuthenticated THEN NavigateTo("/dashboard")
              ELSE Element("Login")
         [] path = "/dashboard" -> ProtectedRoute(state, "Dashboard")
         [] path = "/profile" -> ProtectedRoute(state, "Profile")
         [] path = "/" ->
              NavigateTo(IF state.isAuthenticated THEN "/dashboard" ELSE "/login")
         [] OTHER -> NavigateTo("/")

\* the router follows the Navigate elements to the screen that stays
RECURSIVE render(_, _)
render(state, path) ==
  LET e == App(state, path)
  IN IF e.el = "Navigate" THEN render(state, e.to)
     ELSE [path |-> path, view |-> e.el]

\* the browser after the components that select the auth state have rendered
rerender(state, pg) ==
  LET r == render(state, pg.path)
  IN [pg EXCEPT !.path = r.path, !.view = r.view]

\* the browser when the application is loaded: timers are the pending
\* setTimeout calls of the response interceptor, left tells the redirect
\* (keycloak.login, keycloak.logout) that has taken the browser away
FirstPage ==
  rerender(initialState, [path |-> "/dashboard", view |-> "", timers |-> 0, left |-> ""])

\* a continuation of the initializeKeycloak thunk is queued (a microtask):
\* it runs before the next event is handled
Queued == thunks.initializeKeycloak.pc \in {"initDone", "refreshDone", "return"}

\* the browser handles events: it has not been redirected away and no
\* microtask is queued
Handles == browser.left = "" /\ ~Queued

\* the user follows a link or enters a path
Goto(path) ==
  /\ Handles
  /\ browser' = rerender(auth, [browser EXCEPT !.path = path])
  /\ browser' # browser
  /\ UNCHANGED <<backend, auth, keycloakInstance, isHandling401, thunks, calls>>

\* the effect of Login: keycloak.login of an instance that is not
\* authenticated, the login thunk when the state holds no instance
LoginEffect ==
  /\ Handles
  /\ browser.view = "Login"
  /\ auth.keycloak = "null" \/ ~keycloakInstance.authenticated
  /\ browser' = [browser EXCEPT !.left = "login"]
  /\ UNCHANGED <<backend, auth, keycloakInstance, isHandling401, thunks, calls>>

(***************************************************************************)
(* Frontend: the initializeKeycloak thunk.  keycloak-js answers init and   *)
(* updateToken with one of the outcomes its promises have.                 *)
(***************************************************************************)
NoThunks ==
  [initializeKeycloak |-> [pc |-> "idle", authenticated |-> "", payload |-> FALSE],
   logout |-> [pc |-> "idle", keycloak |-> "null", status |-> 0],
   interceptors |-> FALSE]

\* what init leaves in the instance: authenticated with a token,
\* authenticated without one, not authenticated, or a rejection
InitOutcomes == {"token", "noToken", "anonymous", "throws"}

\* what updateToken leaves in the instance: a new token, the old token kept
\* or none obtained, a rejection, a rejection after clearToken
UpdateOutcomes == {"refreshed", "notRefreshed", "throws", "cleared"}

updateToken(kc, outcome) ==
  CASE outcome = "refreshed" -> [kc EXCEPT !.authenticated = TRUE, !.token = "T"]
    [] outcome = "cleared" -> [kc EXCEPT !.authenticated = FALSE, !.token = UNDEF]
    [] OTHER -> kc

\* App mounts and dispatches initializeKeycloak once: the pending reducer,
\* then new Keycloak and the call of init; a constructor that throws is
\* caught at the end of the thunk
Mount(constructs) ==
  /\ thunks.initializeKeycloak.pc = "idle"
  /\ IF constructs
     THEN /\ keycloakInstance' = [keycloakInstance EXCEPT !.made = TRUE]
          /\ auth' = [auth EXCEPT !.isLoading = TRUE]
          /\ thunks' = [thunks EXCEPT !.initializeKeycloak.pc = "init"]
     ELSE /\ keycloakInstance' = keycloakInstance
          /\ auth' = setUnauthenticated([auth EXCEPT !.isLoading = TRUE],
                                        keycloakInstance)
          /\ thunks' = [thunks EXCEPT !.initializeKeycloak.pc = "return",
                                      !.initializeKeycloak.payload = FALSE]
  /\ browser' = rerender(auth', browser)
  /\ UNCHANGED <<backend, isHandling401, calls>>

\* keycloakInstance.init settles
InitSettles(outcome) ==
  /\ thunks.initializeKeycloak.pc = "init"
  /\ keycloakInstance' =
       CASE outcome = "token" ->
              [keycloakInstance EXCEPT !.authenticated = TRUE, !.token = "T"]
         [] outcome = "noToken" ->
              [keycloakInstance EXCEPT !.authenticated = TRUE]
         [] OTHER -> keycloakInstance
  /\ thunks' = [thunks EXCEPT
       !.initializeKeycloak.pc = "initDone",
       !.initializeKeycloak.authenticated =
          CASE outcome \in {"token", "noToken"} -> "true"
            [] outcome = "anonymous" -> "false"
            [] OTHER -> "throws"]
  /\ UNCHANGED <<backend, auth, isHandling401, calls, browser>>

\* AfterInit of a thunk that goes on only when init resolves
AfterInitThenOnly ==
  /\ thunks.initializeKeycloak.pc = "initDone"
  /\ thunks.initializeKeycloak.authenticated # "throws"
  /\ LET kc == keycloakInstance
         t == [thunks EXCEPT !.interceptors = TRUE]
     IN IF thunks.initializeKeycloak.authenticated = "true" /\ kc.token = UNDEF
        THEN /\ thunks' = [t EXCEPT !.initializeKeycloak.pc = "refresh"]
             /\ auth' = auth
        ELSE /\ thunks' = [t EXCEPT !.initializeKeycloak.pc = "return",
                                    !.initializeKeycloak.payload = kc.authenticated]
             /\ auth' = IF thunks.initializeKeycloak.authenticated = "true"
                        THEN setAuthenticated(auth, kc)
                        ELSE setUnauthenticated(auth, kc)
  /\ browser' = rerender(auth', browser)
  /\ UNCHANGED <<backend, keycloakInstance, isHandling401, calls>>

\* the thunk after init: the interceptors, onTokenExpired, and the dispatch
\* the outcome asks for; an instance without a token goes on to updateToken
AfterInit ==
  /\ thunks.initializeKeycloak.pc = "initDone"
  /\ LET kc == keycloakInstance
         authenticated == thunks.initializeKeycloak.authenticated
         t == [thunks EXCEPT !.interceptors = TRUE]
     IN IF authenticated = "throws"
        THEN /\ thunks' = [thunks EXCEPT !.initializeKeycloak.pc = "return",
                                         !.initializeKeycloak.payload = FALSE]
             /\ auth' = setUnauthenticated(auth, kc)
        ELSE IF authenticated = "true" /\ kc.token = UNDEF
        THEN /\ thunks' = [t EXCEPT !.initializeKeycloak.pc = "refresh"]
             /\ auth' = auth
        ELSE /\ thunks' = [t EXCEPT !.initializeKeycloak.pc = "return",
                                    !.initializeKeycloak.payload = kc.authenticated]
             /\ auth' = IF authenticated = "true" THEN setAuthenticated(auth, kc)
                        ELSE setUnauthenticated(auth, kc)
  /\ browser' = rerender(auth', browser)
  /\ UNCHANGED <<backend, keycloakInstance, isHandling401, calls>>

\* the updateToken of the thunk settles
RefreshSettles(outcome) ==
  /\ thunks.initializeKeycloak.pc = "refresh"
  /\ keycloakInstance' = updateToken(keycloakInstance, outcome)
  /\ thunks' = [thunks EXCEPT
       !.initializeKeycloak.pc = "refreshDone",
       !.initializeKeycloak.authenticated =
          IF outcome \in {"throws", "cleared"} THEN "throws" ELSE "true"]
  /\ UNCHANGED <<backend, auth, isHandling401, calls, browser>>

\* the thunk after its updateToken, up to its return
AfterRefresh ==
  /\ thunks.initializeKeycloak.pc = "refreshDone"
  /\ LET kc == keycloakInstance
     IN /\ auth' = IF thunks.initializeKeycloak.authenticated # "throws"
                      /\ kc.token # UNDEF
                   THEN setAuthenticated(auth, kc)
                   ELSE setUnauthenticated(auth, kc)
        /\ thunks' = [thunks EXCEPT !.initializeKeycloak.pc = "return",
                                    !.initializeKeycloak.payload = kc.authenticated]
  /\ browser' = rerender(auth', browser)
  /\ UNCHANGED <<backend, keycloakInstance, isHandling401, calls>>

\* the reducer of initializeKeycloak.fulfilled
Fulfilled ==
  /\ thunks.initializeKeycloak.pc = "return"
  /\ auth' = [auth EXCEPT
       !.keycloak = IF keycloakInstance.made THEN "instance" ELSE "null",
       !.isAuthenticated = thunks.initializeKeycloak.payload,
       !.token = IF keycloakInstance.made THEN keycloakInstance.token ELSE UNDEF,
       !.isLoading = FALSE]
  /\ thunks' = [thunks EXCEPT !.initializeKeycloak.pc = "settled"]
  /\ browser' = rerender(auth', browser)
  /\ UNCHANGED <<backend, keycloakInstance, isHandling401, calls>>

\* onTokenExpired: updateToken, then setAuthenticated when it refreshed and
\* setUnauthenticated when it rejected
TokenExpired(outcome) ==
  /\ Handles
  /\ thunks.interceptors
  /\ keycloakInstance.token # UNDEF
  /\ outcome # "notRefreshed"
  /\ keycloakInstance' = updateToken(keycloakInstance, outcome)
  /\ auth' = IF outcome = "refreshed" THEN setAuthenticated(auth, keycloakInstance')
             ELSE setUnauthenticated(auth, keycloakInstance')
  /\ browser' = rerender(auth', browser)
  /\ UNCHANGED <<backend, isHandling401, thunks, calls>>

(***************************************************************************)
(* Frontend: the axios calls, the response interceptor and the logout      *)
(* thunk                                                                   *)
(***************************************************************************)
NoCall == [pc |-> "idle", kind |-> ""]

NoCalls == [c \in Calls |-> NoCall]

\* one more setTimeout of the response interceptor is pending
schedule(timers) == IF timers < MaxTimers THEN timers + 1 ELSE timers

\* the statuses a response of the backend can have
Statuses == {200, 401, 500}

\* the call slot the next axios call takes
FreeCall == CHOOSE c \in Calls : calls[c].pc = "idle" /\ \A d \in Calls : calls[d].pc = "idle" => c <= d

\* the logout thunk after its backend call: clearAuthState, then
\* keycloak.logout of the instance the thunk read from the state
logoutContinues(st) ==
  LET a == clearAuthState(st.auth)
      pg == IF st.thunks.logout.keycloak # "null"
            THEN [st.browser EXCEPT !.left = "logout"] ELSE st.browser
  IN [auth |-> a,
      thunks |-> [st.thunks EXCEPT !.logout.pc = "done"],
      browser |-> rerender(a, pg)]

\* settle of a logout thunk that rejects when its backend call fails
settleRejectsLogout(st, kind, status) ==
  IF kind = "logout"
  THEN IF status = 200 THEN logoutContinues([st EXCEPT !.thunks.logout.status = status])
       ELSE [st EXCEPT !.thunks.logout.pc = "done", !.thunks.logout.status = status]
  ELSE [st EXCEPT !.auth = IF status = 200
                           THEN [@ EXCEPT !.user = "profile", !.error = "null"]
                           ELSE [@ EXCEPT !.error = "Failed to get user"]]

\* the promise of an axios call settles with the status of its response
\* and the thunk that awaits it goes on: getCurrentUser to its reducers,
\* logout to the rest of the thunk
settle(st, kind, status) ==
  IF kind = "logout" THEN logoutContinues([st EXCEPT !.thunks.logout.status = status])
  ELSE [st EXCEPT !.auth = IF status = 200
                           THEN [@ EXCEPT !.user = "profile", !.error = "null"]
                           ELSE [@ EXCEPT !.error = "Failed to get user"]]

\* the auth state, the thunks and the browser, which a settled call changes
Settled == [auth |-> auth, thunks |-> thunks, browser |-> browser]

\* Dashboard and Profile dispatch getCurrentUser
Fetch ==
  /\ Handles
  /\ browser.view \in {"Dashboard", "Profile"}
  /\ \E c \in Calls : calls[c].pc = "idle"
  /\ calls' = [calls EXCEPT ![FreeCall] = [pc |-> "flight", kind |-> "getCurrentUser"]]
  /\ UNCHANGED <<backend, auth, keycloakInstance, isHandling401, thunks, browser>>

\* the response of a call arrives: the response interceptor up to its
\* await of updateToken, or to its end
ResponseArrives(c, status) ==
  /\ Handles
  /\ calls[c].pc = "flight"
  /\ LET kc == keycloakInstance
         handles == thunks.interceptors /\ status = 401 /\ ~isHandling401
     IN IF handles /\ kc.made /\ kc.authenticated
        THEN /\ isHandling401' = TRUE
             /\ calls' = [calls EXCEPT ![c].pc = "refresh"]
             /\ UNCHANGED <<auth, thunks, browser>>
        ELSE LET timers == IF handles /\ kc.made THEN schedule(browser.timers)
                           ELSE browser.timers
                 out == settle([Settled EXCEPT !.browser.timers = timers],
                               calls[c].kind, status)
             IN /\ isHandling401' = IF status = 200 /\ thunks.interceptors
                                    THEN isHandling401 ELSE FALSE
                /\ calls' = [calls EXCEPT ![c] = NoCall]
                /\ auth' = out.auth
                /\ thunks' = out.thunks
                /\ browser' = out.browser
  /\ UNCHANGED <<backend, keycloakInstance>>

\* the updateToken of the response interceptor settles: the request is
\* sent again with the new token, or the logout is scheduled and the error
\* passed on
UpdateTokenSettles(c, outcome) ==
  /\ Handles
  /\ calls[c].pc = "refresh"
  /\ keycloakInstance' = updateToken(keycloakInstance, outcome)
  /\ isHandling401' = FALSE
  /\ IF outcome = "refreshed"
     THEN /\ calls' = [calls EXCEPT ![c].pc = "flight"]
          /\ UNCHANGED <<auth, thunks, browser>>
     ELSE LET out == settle([Settled EXCEPT !.browser.timers = schedule(@)],
                            calls[c].kind, 401)
          IN /\ calls' = [calls EXCEPT ![c] = NoCall]
             /\ auth' = out.auth
             /\ thunks' = out.thunks
             /\ browser' = out.browser
  /\ UNCHANGED backend

\* the setTimeout of the response interceptor fires: keycloak.logout
LogoutTimer ==
  /\ Handles
  /\ browser.timers > 0
  /\ browser' = [browser EXCEPT !.timers = @ - 1, !.left = "logout"]
  /\ UNCHANGED <<backend, auth, keycloakInstance, isHandling401, thunks, calls>>

\* Dashboard and Profile dispatch logout: the thunk reads the state and
\* posts to the backend when the instance of the state holds a token
LogoutClick ==
  /\ Handles
  /\ browser.view \in {"Dashboard", "Profile"}
  /\ thunks.logout.pc = "idle"
  /\ LET t == [thunks EXCEPT !.logout.keycloak = auth.keycloak]
     IN IF auth.keycloak # "null" /\ keycloakInstance.token # UNDEF
        THEN /\ \E c \in Calls : calls[c].pc = "idle"
             /\ calls' = [calls EXCEPT ![FreeCall] =
                            [pc |-> "flight", kind |-> "logout"]]
             /\ thunks' = [t EXCEPT !.logout.pc = "post"]
             /\ UNCHANGED <<auth, browser>>
        ELSE LET out == logoutContinues([Settled EXCEPT !.thunks = t])
             IN /\ auth' = out.auth
                /\ thunks' = out.thunks
                /\ browser' = out.browser
                /\ calls' = calls
  /\ UNCHANGED <<backend, keycloakInstance, isHandling401>>

\* the state but for the environment, the stored users and the process
InitStore ==
  /\ client = "null"
  /\ reqs = [r \in Reqs |-> IdleReq]
  /\ now = 0
  /\ syncLog = [s \in Subs |-> None]
  /\ seen = [k \in FailureKinds |-> {}]
  /\ loggedOut = {}
  /\ made = 0
  /\ auth = initialState
  /\ keycloakInstance = NoInstance
  /\ isHandling401 = FALSE
  /\ thunks = NoThunks
  /\ calls = NoCalls
  /\ browser = FirstPage

Init ==
  /\ InitStore
  /\ env \in Envs
  /\ users = <<>>
  /\ proc = Listening

(***************************************************************************)
(* Requests of the clients                                                 *)
(***************************************************************************)
Request(route, header, tok) ==
  [IdleReq EXCEPT !.route = route, !.header = header, !.tok = tok]

\* PUT /me bodies: allow-listed fields, fields outside the allow-list, and
\* values the validators refuse
Bodies ==
  { [firstName |-> " Zed", phoneNumber |-> "+15550100"],
    [keycloakId |-> "u2", email |-> "eve@x", username |-> "eve",
     enabled |-> "false", emailVerified |-> "false", lastName |-> "Zed"],
    [email |-> "eve", firstName |-> "Zed"],
    [firstName |-> ""] }

Ids == {"1", "3", "x"}

Queries == { [page |-> "2", limit |-> "1"], [page |-> "1", limit |-> "101"] }

DefaultQuery == [page |-> UNDEF, limit |-> UNDEF]

\* the requests with a given header and token
RequestsWith(header, tok, bodies, ids, queries) ==
  { Request(route, header, tok) : route \in {"GET /me", "DELETE /me", "POST /logout"} }
  \cup { [Request("PUT /me", header, tok) EXCEPT !.body = b] : b \in bodies }
  \cup { [Request("GET /:id", header, tok) EXCEPT !.id = i] : i \in ids }
  \cup { [Request("GET /", header, tok) EXCEPT !.query = qy] : qy \in queries }

\* every header and every token, one body, id and query
AuthRequests ==
  UNION { RequestsWith(Bearer(TokenText), tok, {NoBody}, {"1"},
                       {DefaultQuery}) :
            tok \in AllTokens({"u1"}, {1}) }
  \cup UNION { RequestsWith(Bearer(<<"\t">> \o TokenText), tok, {NoBody}, {"1"},
                       {DefaultQuery}) :
            tok \in {GoodToken("u1", 1), MalformedToken} }
  \cup UNION { RequestsWith(h, MalformedToken, {NoBody}, {"1"},
                       {DefaultQuery}) : h \in BadHeaders }

\* sessions of two subjects: the first with both sets of claims and the
\* bodies, the second beside it
SessionRequests ==
  UNION { RequestsWith(Bearer(TokenText), tok, Bodies, Ids, Queries) :
            tok \in {GoodToken("u1", 1), GoodToken("u1", 2)} }
  \cup RequestsWith(Bearer(TokenText), [GoodToken("u2", 1) EXCEPT !.aud = FALSE],
                    {NoBody}, {"1"}, {DefaultQuery})

\* one subject with both sets of claims
TimeRequests ==
  UNION { RequestsWith(Bearer(TokenText), tok,
                       {[firstName |-> " Zed"],
                        [keycloakId |-> "u2", email |-> "eve@x", username |-> "eve",
                         enabled |-> "false", emailVerified |-> "false",
                         lastName |-> "Zed"]}, {"1"},
                       {DefaultQuery}) :
            tok \in {GoodToken("u1", 1), GoodToken("u1", 2)} }

\* POST /logout with a token of each defect
KindRequests ==
  { Request("POST /logout", Bearer(TokenText), tok) :
      tok \in {MalformedToken, GoodToken("u1", 1)} \cup
              { TokenOf("jwt", "known", alg, sig, nbf, exp, TRUE, TRUE, "u1", 1) :
                  alg \in BOOLEAN, sig \in BOOLEAN, nbf \in BOOLEAN, exp \in BOOLEAN } }

\* one subject's requests, for the interleavings of two of them
RaceRequests ==
  UNION { RequestsWith(Bearer(TokenText), tok, {[firstName |-> " Zed"]}, {"1"},
                       {DefaultQuery}) :
            tok \in {GoodToken("u1", 1)} }

\* GET / with every page and limit
ListQueries ==
  { [page |-> p, limit |-> l] :
      p \in {UNDEF, "1", "2", "3"}, l \in {UNDEF, "1", "2", "10", "101"} }

ListRequests ==
  { [Request("GET /", Bearer(TokenText), GoodToken("u1", 1)) EXCEPT !.query = qy] :
      qy \in ListQueries }

\* the subject id of the i-th subject that signs in
SubjectId(i) == "s" \o ToString(i)

\* the store after n subjects have signed in once (GET /me) at time 0
Store(n) ==
  [i \in 1..n |->
     LET q == attachUserInfo(Request("GET /me", Bearer(TokenText),
                                     GoodToken(SubjectId(i), 1)))
         userData == userDataOf(q.user[1])
     IN syncUserFromKeycloak(
          [newUser(<<>>, userData.keycloakId, 0) EXCEPT !._id = i], userData, 0)]

\* the sizes of the stores of the listings
ListSizes == {0, 1, 2, 3, 15, MaxUsers}

Handlers(r) ==
  \/ getCurrentUser(r)
  \/ \E retry \in BOOLEAN : getCurrentUserInsert(r, retry)
  \/ getUserById(r)
  \/ getAllUsers(r)
  \/ getAllUsersCount(r)
  \/ updateCurrentUser(r)
  \/ deleteCurrentUser(r)
  \/ logout(r)
  \/ storeFails(r)

Middleware(r) ==
  \/ Expire(r)
  \/ \E res \in {"key", "unreachable", "noPublicKey", "notFound"} : KeyReturn(r, res)

\* one request at a time, every header and token, every environment
NextAuth ==
  \/ \E q \in AuthRequests : Arrive(1, q)
  \/ Middleware(1)
  \/ Handlers(1)
  \/ Finish(1)

SpecAuth == Init /\ [][NextAuth]_vars

\* the environment of a configured deployment
InitConfigured == Init /\ env = ConfiguredEnv

\* one request at a time, sessions of two subjects
Next ==
  \/ \E q \in SessionRequests : Arrive(1, q)
  \/ Middleware(1)
  \/ Handlers(1)
  \/ Finish(1)

Spec == InitConfigured /\ [][Next]_vars

\* one request at a time, one subject, while the clock runs
NextTime ==
  \/ \E q \in TimeRequests : Arrive(1, q)
  \/ Middleware(1)
  \/ Handlers(1)
  \/ Finish(1)
  \/ Tick

SpecTime == InitConfigured /\ [][NextTime]_vars

\* two requests in flight
NextRace ==
  \E r \in Reqs :
    \/ \E q \in RaceRequests : Arrive(r, q)
    \/ Middleware(r)
    \/ Handlers(r)
    \/ Finish(r)

SpecRace == InitConfigured /\ [][NextRace]_vars

\* one request at a time over restarts, the callers noting the codes
NextKinds ==
  \/ \E q \in KindRequests : Arrive(1, q)
  \/ Middleware(1)
  \/ logout(1)
  \/ Deliver(1)
  \/ \E e \in Envs : Restart(e)

SpecKinds == Init /\ [][NextKinds]_vars

\* one subject's requests with a token of the configured audience and one
\* of another audience, before and after its logout
LogoutRequests ==
  UNION { RequestsWith(Bearer(TokenText), tok, {[firstName |-> " Zed"]}, {"1"},
                       {DefaultQuery}) :
            tok \in {GoodToken("u1", 1), [GoodToken("u1", 1) EXCEPT !.aud = FALSE]} }

NextLogout ==
  \/ \E q \in LogoutRequests : Arrive(1, q)
  \/ Middleware(1)
  \/ Handlers(1)
  \/ Acknowledge(1)

SpecLogout == InitConfigured /\ [][NextLogout]_vars

\* a store of many subjects, and one listing at a time
InitList ==
  /\ InitStore
  /\ env = ConfiguredEnv
  /\ users \in { Store(n) : n \in ListSizes }
  /\ proc = Listening

NextList ==
  \/ \E q \in ListRequests : Arrive(1, q)
  \/ Middleware(1)
  \/ getAllUsers(1)
  \/ getAllUsersCount(1)
  \/ storeFails(1)
  \/ Finish(1)

SpecList == InitList /\ [][NextList]_vars

\* every route of two subjects, and the health routes
FrameRequests ==
  UNION { RequestsWith(Bearer(TokenText), GoodToken(sub, 1),
                       {[firstName |-> " Zed", phoneNumber |-> "+15550100"]},
                       {"1"}, {DefaultQuery}) : sub \in Subs }

HealthRoutes == {"GET /health", "GET /api/users/health"}

NextFrame ==
  \/ \E q \in FrameRequests : Arrive(1, q)
  \/ Middleware(1)
  \/ Handlers(1)
  \/ \E route \in HealthRoutes, dbConnected \in BOOLEAN : healthCheck(1, route, dbConnected)
  \/ Finish(1)

SpecFrame == InitConfigured /\ [][NextFrame]_vars

\* the process from its start, and the requests it takes once it listens
InitBoot ==
  /\ InitStore
  /\ env = ConfiguredEnv
  /\ users = <<>>
  /\ proc = Booting

NextBoot ==
  \/ \E listens \in BOOLEAN : ConnectResolves(listens)
  \/ ConnectRejects
  \/ Sigterm
  \/ \E q \in KindRequests : Arrive(1, q)
  \/ Middleware(1)
  \/ logout(1)
  \/ Finish(1)

SpecBoot == InitBoot /\ [][NextBoot]_vars

\* the browser application, from its load on
NextFront ==
  \/ \E constructs \in BOOLEAN : Mount(constructs)
  \/ \E outcome \in InitOutcomes : InitSettles(outcome)
  \/ AfterInit
  \/ \E outcome \in UpdateOutcomes : RefreshSettles(outcome)
  \/ AfterRefresh
  \/ Fulfilled
  \/ \E outcome \in UpdateOutcomes : TokenExpired(outcome)
  \/ \E path \in Paths : Goto(path)
  \/ LoginEffect
  \/ Fetch
  \/ \E c \in Calls, status \in Statuses : ResponseArrives(c, status)
  \/ \E c \in Calls, outcome \in UpdateOutcomes : UpdateTokenSettles(c, outcome)
  \/ LogoutTimer
  \/ LogoutClick

SpecFront == InitConfigured /\ [][NextFront]_vars

\* A promise that has settled has its continuation run (the microtask
\* queue): the steps of the thunk after init and after updateToken, and the
\* fulfilled reducer, are taken when they stay enabled; whether keycloak-js
\* and the backend answer is left open
SpecFrontFair ==
  /\ InitConfigured
  /\ [][NextFront]_vars
  /\ WF_vars(AfterInit)
  /\ WF_vars(AfterRefresh)
  /\ WF_vars(Fulfilled)

(***************************************************************************)
(* Properties of the middleware                                            *)
(***************************************************************************)
\* the environment names the provider and a usable key endpoint
Configured == ~issuerUnset(env) /\ ~jwksUriUnset(env)

\* the header is exactly "Bearer", one space, and a token that is not empty
\* and holds no further space
ExactBearer(h) ==
  /\ h # None
  /\ Len(h[1]) > Len(BearerPrefix)
  /\ \A i \in 1..Len(BearerPrefix) : h[1][i] = BearerPrefix[i]
  /\ \A i \in (Len(BearerPrefix) + 1)..Len(h[1]) : h[1][i] # " "

\* the verifier had the key, and the token's envelope, algorithm, signature
\* and not-before are good
SignedToken(q) ==
  /\ q.tok.form = "jwt" /\ q.tok.kid = "known" /\ q.keyRes = "key"
  /\ q.tok.alg /\ q.tok.sig /\ q.tok.nbf

\* the middleware has answered or passed the request on
Decided(q) == q.pc \notin {"idle", "key"}

\* C1: a handler runs only behind one next() of a successful verification;
\* every failure path of the middleware sends exactly one error response
\* and never calls next(); on success the middleware calls next() once and
\* sends nothing itself
C1_HandlerOnlyIfVerified ==
  \A r \in Reqs :
    LET q == reqs[r]
    IN /\ q.nextCalls <= 1
       /\ Len(q.sent) <= 1
       /\ q.pc # "thrown"
       /\ q.handlerRan => q.nextCalls = 1
       /\ q.nextCalls = 1 =>
            /\ ExactBearer(q.header) /\ Configured
            /\ SignedToken(q) /\ ~q.expired /\ q.tok.iss
            /\ q.tok.aud \/ ~env.clientId \/ q.attempt = 2
            /\ q.user # None
       /\ q.pc = "next" => q.sent = <<>>
       /\ q.pc = "done" => Len(q.sent) = 1
       /\ (q.pc = "done" /\ q.nextCalls = 0) =>
            /\ q.sent[1].status \in {401, 500}
            /\ ~q.handlerRan

\* C1 witness: the verifier refused a token after the key fetch and the
\* request ended with one 401
C1_Witness ==
  /\ reqs[1].pc = "done" /\ reqs[1].keyRes = "key" /\ reqs[1].nextCalls = 0
  /\ reqs[1].sent[1].status = 401

\* C2: a token that is good but for its audience is retried once without
\* the audience and accepted with req.user set from its claims; a retry
\* that fails ends in a 401
C2_RelaxedAudience ==
  \A r \in Reqs :
    LET q == reqs[r]
    IN /\ q.attempt \in 0..2
       /\ q.attempt = 2 => (~q.tok.aud /\ env.clientId)
       /\ (Decided(q) /\ ExactBearer(q.header) /\ Configured /\ SignedToken(q)
             /\ ~q.tok.exp /\ q.tok.iss /\ ~q.tok.aud) =>
            /\ q.nextCalls = 1
            /\ q.attempt = IF env.clientId THEN 2 ELSE 1
            /\ q.user # None
            /\ q.user[1].keycloakId = q.tok.payload.sub
            /\ q.user[1].email = q.tok.payload.email
       /\ (q.attempt = 2 /\ q.pc = "done" /\ q.nextCalls = 0) =>
            (Len(q.sent) = 1 /\ q.sent[1].status = 401)

\* C2 witness: a request accepted by the retry
C2_Witness ==
  /\ reqs[1].attempt = 2 /\ reqs[1].nextCalls = 1 /\ ~reqs[1].tok.aud
  /\ reqs[1].user # None

\* C3: a token with another algorithm or a tampered signature gets 401 with
\* the code the middleware gives a signature failure, INVALID_TOKEN, on
\* every protected route
C3_SignatureInvalid ==
  \A r \in Reqs :
    LET q == reqs[r]
    IN (Decided(q) /\ ExactBearer(q.header) /\ Configured
          /\ q.tok.form = "jwt" /\ (~q.tok.alg \/ ~q.tok.sig)) =>
         /\ q.pc = "done" /\ q.nextCalls = 0 /\ ~q.handlerRan
         /\ Len(q.sent) = 1
         /\ q.sent[1].status = 401
         /\ q.sent[1].error = "INVALID_TOKEN"

\* C3 witness: a tampered signature under a fetched key was refused
C3_Witness ==
  /\ reqs[1].pc = "done" /\ reqs[1].keyRes = "key"
  /\ reqs[1].tok.alg /\ ~reqs[1].tok.sig
  /\ reqs[1].sent[1].error = "INVALID_TOKEN"

\* C4: a token that is expired when the verifier reads the clock gets 401
\* with TOKEN_EXPIRED on every protected route, whatever its audience and
\* issuer, also when the retry without audience is what finds it expired
C4_TokenExpired ==
  \A r \in Reqs :
    LET q == reqs[r]
    IN (Decided(q) /\ ExactBearer(q.header) /\ Configured /\ SignedToken(q)
          /\ q.expired) =>
         /\ q.pc = "done" /\ q.nextCalls = 0 /\ ~q.handlerRan
         /\ Len(q.sent) = 1
         /\ q.sent[1].status = 401
         /\ q.sent[1].error = "TOKEN_EXPIRED"

\* C4 witness: the retry without audience found the token expired
C4_Witness ==
  /\ reqs[1].pc = "done" /\ reqs[1].attempt = 2 /\ reqs[1].expired
  /\ ~reqs[1].tok.aud /\ reqs[1].keyRes = "key"
  /\ reqs[1].sent[1].error = "TOKEN_EXPIRED"

\* the failure kinds whose codes the callers have seen
SeenKinds == { k \in FailureKinds : seen[k] # {} }

C6_MalformedCredential ==
  \A r \in Reqs :
    LET q == reqs[r]
    IN (q.pc # "idle" /\ ~ExactBearer(q.header)) =>
         /\ q.pc = "done" /\ Len(q.sent) = 1 /\ q.sent[1].status = 401
         /\ q.attempt = 0 /\ q.keyRes = "" /\ q.nextCalls = 0 /\ ~q.handlerRan

\* C6 witness: a header with two tokens behind Bearer was refused
C6_Witness ==
  /\ reqs[1].pc = "done"
  /\ reqs[1].header = Bearer(TokenText \o <<" ">> \o TokenText)
  /\ reqs[1].sent[1].status = 401

\* the header is "Bearer", one space and a token that holds no space and is
\* not white space only
WellFormedBearer(h) ==
  /\ ExactBearer(h)
  /\ \E i \in (Len(BearerPrefix) + 1)..Len(h[1]) : ~IsWhite(h[1][i])

\* C19: with KEYCLOAK_URL or KEYCLOAK_REALM unset, a request with a
\* well-formed bearer credential ends with the configuration error (500);
\* jwt.verify is not called, no JWKS client is made, no key is fetched and
\* no handler runs
C19_ConfigurationError ==
  issuerUnset(env) =>
    /\ client = "null"
    /\ \A r \in Reqs :
         LET q == reqs[r]
         IN (q.pc # "idle" /\ WellFormedBearer(q.header)) =>
              /\ q.pc = "done" /\ Len(q.sent) = 1
              /\ q.sent[1].status = 500
              /\ q.sent[1].message = "Server configuration error"
              /\ ~q.sent[1].success
              /\ q.attempt = 0 /\ q.keyRes = ""
              /\ q.nextCalls = 0 /\ ~q.handlerRan

\* C19 witness: with KEYCLOAK_URL unset and a key endpoint configured, a
\* token with no defect met the configuration error
C19_Witness ==
  /\ ~env.url /\ env.pubKeyUrl = "url"
  /\ reqs[1].pc = "done" /\ reqs[1].header = Bearer(TokenText)
  /\ reqs[1].tok = GoodToken("u1", 1)
  /\ reqs[1].sent[1].message = "Server configuration error"

\* the key resolver has no key for the request's token: the header has no
\* kid, or the fetch of the key did not give one
NoKey(q) ==
  /\ q.attempt >= 1 /\ q.tok.form = "jwt"
  /\ \/ q.tok.kid = "none"
     \/ q.keyRes \in {"notFound", "unreachable", "noPublicKey"}

\* C20: when the header has no kid, the kid is unknown to the endpoint, the
\* endpoint is unreachable or the material gives no public key, getKey
\* reports an error and no key, and the request ends with 401 and no
\* handler; a kid that is absent or unknown never gets a key
C20_KeyResolutionError ==
  \A r \in Reqs :
    LET q == reqs[r]
    IN /\ q.tok.kid # "known" => q.keyRes # "key"
       /\ NoKey(q) =>
            /\ q.pc = "done" /\ Len(q.sent) = 1
            /\ q.sent[1].status = 401
            /\ q.sent[1].error = "INVALID_TOKEN"
            /\ q.user = None /\ q.nextCalls = 0 /\ ~q.handlerRan

\* C20 witness: the material fetched for a known kid gave no public key,
\* and the token, which has no other defect, was refused
C20_Witness ==
  /\ reqs[1].pc = "done" /\ reqs[1].keyRes = "noPublicKey"
  /\ reqs[1].tok = GoodToken("u1", 1)
  /\ reqs[1].sent[1].status = 401

(***************************************************************************)
(* Properties of the synchronization and the store                         *)
(***************************************************************************)
\* the documents of a subject
DocsOf(sub) == { i \in 1..Len(users) : users[i].keycloakId = sub }

\* the verifier has nothing against the token (its audience aside)
ValidToken(q) ==
  /\ ExactBearer(q.header) /\ Configured /\ SignedToken(q)
  /\ ~q.tok.exp /\ q.tok.iss

\* C7: GET /me with a valid, unexpired, correctly signed token of the
\* right issuer answers 200 with the stored record of the token's sub,
\* whether the record existed or not (the data store answering)
C7_MeReturnsSubject ==
  \A r \in Reqs :
    LET q == reqs[r]
    IN (q.route = "GET /me" /\ q.pc = "done" /\ ValidToken(q)
          /\ q.dbRes \notin {"error", "E11000"}) =>
         /\ Len(q.sent) = 1
         /\ q.sent[1].status = 200
         /\ q.sent[1].data # None
         /\ q.sent[1].data[1].keycloakId = q.tok.payload.sub
         /\ q.sent[1].data[1]._id \in DocsOf(q.tok.payload.sub)
         /\ users[q.sent[1].data[1]._id] = q.sent[1].data[1]

\* C7 witness: the second subject's record existed, and its token, good
\* but for the audience, got 200 with it
C7_Witness ==
  /\ reqs[1].route = "GET /me" /\ reqs[1].pc = "done"
  /\ reqs[1].tok.payload.sub = "u2" /\ ~reqs[1].tok.aud
  /\ reqs[1].sent[1].status = 200
  /\ syncLog["u2"] # None /\ syncLog["u2"][1].n = 2
  /\ Len(users) = 2

\* two documents agree on every field outside fields
EqualExcept(a, b, fields) == \A f \in (DOMAIN a) \ fields : a[f] = b[f]

\* the stored record of a subject after a run of identical synchronizations
\* equals the record after the first of them outside fields, and the store
\* holds as many records
SameAsFirstSync(fields) ==
  \A sub \in Subs :
    syncLog[sub] # None =>
      /\ Cardinality(DocsOf(sub)) = 1
      /\ Len(users) = syncLog[sub][1].len
      /\ EqualExcept(users[findOne(users, sub)], syncLog[sub][1].first, fields)

\* C8 as claimed: N synchronizations with identical claims leave the record
\* of one synchronization but for lastLogin
C8_ExceptLastLogin == SameAsFirstSync({"lastLogin"})

\* C8 as amended: ... but for lastLogin and updatedAt
C8_ExceptLastLoginUpdatedAt == SameAsFirstSync({"lastLogin", "updatedAt"})

\* C8 witness: a second identical synchronization at a later time
C8_Witness ==
  /\ syncLog["u1"] # None /\ syncLog["u1"][1].n >= 2
  /\ users[findOne(users, "u1")].lastLogin # syncLog["u1"][1].first.lastLogin

\* a request that a handler has taken up can take its next step
CanStep(r) ==
  \/ reqs[r].pc \notin {"next", "insert", "count"}
  \/ ENABLED Handlers(r)

\* C9: under any interleaving of GET /me requests of one subject the store
\* holds one record of the subject, and each of the requests gets its one
\* response, with the record stored also when the request lost the race
\* for the insert
C9_OneRecordPerSubject ==
  /\ \A sub \in Subs : Cardinality(DocsOf(sub)) <= 1
  /\ \A r \in Reqs :
       LET q == reqs[r]
       IN /\ CanStep(r)
          /\ (q.route = "GET /me" /\ q.pc = "done" /\ q.handlerRan) =>
               /\ Len(q.sent) = 1
               /\ q.dbRes \in {"ok", "E11000"} =>
                    Cardinality(DocsOf(q.user[1].keycloakId)) = 1

\* C9 witness: of two GET /me of one subject, one inserted the record and
\* the other's insert met the unique index
C9_Witness ==
  /\ reqs[1].route = "GET /me" /\ reqs[1].pc = "done" /\ reqs[1].dbRes = "ok"
  /\ reqs[2].route = "GET /me" /\ reqs[2].pc = "done" /\ reqs[2].dbRes = "E11000"
  /\ Cardinality(DocsOf("u1")) = 1

\* C10: no step changes the keycloakId of a stored record
C10_KeycloakIdImmutable ==
  [][\A i \in 1..Len(users) :
       /\ i <= Len(users')
       /\ users'[i].keycloakId = users[i].keycloakId]_vars

\* C10 witness: a PUT /me whose body names another keycloakId was applied,
\* and the caller's record keeps its key
C10_Witness ==
  /\ reqs[1].route = "PUT /me" /\ reqs[1].pc = "done"
  /\ "keycloakId" \in DOMAIN reqs[1].body
  /\ reqs[1].sent[1].status = 200
  /\ reqs[1].sent[1].data[1].keycloakId = reqs[1].user[1].keycloakId
  /\ reqs[1].body["keycloakId"] # reqs[1].user[1].keycloakId

(***************************************************************************)
(* Properties of the profile routes                                        *)
(***************************************************************************)
\* the subject ids of the stored records
StoredIds(docs) == { docs[i].keycloakId : i \in 1..Len(docs) }

\* the step in which the handler of route answers request r
HandlerStep(r, route) ==
  /\ reqs[r].route = route /\ reqs[r].pc = "next" /\ reqs'[r].pc = "done"

\* C11: no step removes a record: the store never shrinks and the stored
\* subject ids only grow; DELETE /me that answers 200 leaves the caller's
\* record stored, with enabled = false
C11_NoPhysicalDelete ==
  [][/\ Len(users') >= Len(users)
     /\ StoredIds(users) \subseteq StoredIds(users')
     /\ \A r \in Reqs :
          (HandlerStep(r, "DELETE /me") /\ reqs'[r].sent[1].status = 200) =>
            LET i == findOne(users', reqs[r].user[1].keycloakId)
            IN /\ i # 0
               /\ i = findOne(users, reqs[r].user[1].keycloakId)
               /\ users'[i].enabled = FALSE]_vars

\* C11 witness: DELETE /me answered 200 beside another subject's record,
\* and the caller's record is stored and disabled
C11_Witness ==
  /\ reqs[1].route = "DELETE /me" /\ reqs[1].pc = "done"
  /\ reqs[1].sent[1].status = 200
  /\ Len(users) = 2
  /\ findOne(users, reqs[1].user[1].keycloakId) # 0
  /\ users[findOne(users, reqs[1].user[1].keycloakId)].enabled = FALSE

\* the PUT /me step of request r leaves every stored field outside fields
\* as it was, in every record
UpdateFrame(r, fields) ==
  HandlerStep(r, "PUT /me") =>
    /\ Len(users') = Len(users)
    /\ \A i \in 1..Len(users) :
         IF users[i].keycloakId = reqs[r].user[1].keycloakId
         THEN EqualExcept(users'[i], users[i], fields)
         ELSE users'[i] = users[i]

\* C12 as claimed: PUT /me leaves every stored field outside the allow-list
\* as it was
C12_FrameAllowList == [][\A r \in Reqs : UpdateFrame(r, allowedFields)]_vars

\* C12 as amended: PUT /me leaves every stored field outside the allow-list
\* as it was, but for updatedAt
C12_FrameButUpdatedAt ==
  [][\A r \in Reqs : UpdateFrame(r, allowedFields \cup {"updatedAt"})]_vars

\* C12 witness: a PUT /me that names keycloakId, email, username, enabled and
\* emailVerified with other values than the stored ones was applied at a
\* later time than the record was written
C12_Witness ==
  /\ reqs[1].route = "PUT /me" /\ reqs[1].pc = "done"
  /\ reqs[1].sent[1].status = 200
  /\ {"keycloakId", "email", "username", "enabled", "emailVerified"}
       \subseteq DOMAIN reqs[1].body
  /\ LET doc == users[findOne(users, reqs[1].user[1].keycloakId)]
     IN /\ doc.lastName = "Zed"
        /\ doc.email # reqs[1].body["email"]
        /\ doc.enabled /\ doc.emailVerified
        /\ doc.updatedAt # doc.createdAt

\* an authenticated PUT /me has been answered, and the values of the fields
\* of its body outside exempt that have a validation chain pass it
UpdateAnswered(q, exempt) ==
  /\ q.route = "PUT /me" /\ q.pc = "done" /\ q.nextCalls = 1
  /\ \A f \in (DOMAIN q.body) \ exempt : ~fails(q.body, f)

\* the request was not rejected as invalid, and a 200 carries the record
\* with the allow-listed fields of the body applied
UpdateApplied(q) ==
  /\ q.sent[1].status # 400
  /\ q.sent[1].status = 200 =>
       \A f \in allowedFields \cap DOMAIN q.body :
         /\ q.sent[1].data[1][f] = cast(f, sanitizeUpdateUser(q.body)[f])
         /\ users[q.sent[1].data[1]._id][f] = q.sent[1].data[1][f]

\* C13 as claimed: a field outside the allow-list, whatever its value, never
\* has the request rejected; the allow-listed fields of the body are applied
C13_NeverRejected ==
  \A r \in Reqs :
    UpdateAnswered(reqs[r], (DOMAIN reqs[r].body) \ allowedFields) =>
      UpdateApplied(reqs[r])

\* C13 as amended: ... unless the field is email or username with a value
\* that fails the format rule of validateUpdateUser
C13_RejectedOnlyByFormat ==
  \A r \in Reqs :
    UpdateAnswered(reqs[r],
                   (DOMAIN reqs[r].body) \ (allowedFields \cup {"email", "username"})) =>
      UpdateApplied(reqs[r])

\* C13 witness: a body with keycloakId, email, username and enabled beside
\* lastName got 200 with lastName applied
C13_Witness ==
  /\ reqs[1].route = "PUT /me" /\ reqs[1].pc = "done"
  /\ {"keycloakId", "email", "username", "enabled", "lastName"}
       \subseteq DOMAIN reqs[1].body
  /\ reqs[1].sent[1].status = 200
  /\ reqs[1].sent[1].data[1].lastName = "Zed"
  /\ reqs[1].sent[1].data[1].email # "eve@x"

\* the store answered the handler of request q, and the record the request
\* is about is not stored
TargetAbsent(q) ==
  /\ q.pc = "done" /\ q.handlerRan /\ q.dbRes = "ok"
  /\ \/ q.route = "GET /:id" /\ ObjectIdIsValid(q.id) /\ ObjectIdOf(q.id) > Len(users)
     \/ q.route \in {"PUT /me", "DELETE /me"}
          /\ findOne(users, q.user[1].keycloakId) = 0

\* C16 as claimed: a request about a record that is not stored is answered
\* with 404
C16_AbsentIs404 ==
  \A r \in Reqs : TargetAbsent(reqs[r]) => reqs[r].sent[1].status = 404

\* request q carries a token a client has logged out with, the token is
\* not expired, and the verifier has had its key and decided
AfterLogout(q) ==
  /\ Carried(q.tok) \in loggedOut /\ ~q.tok.exp
  /\ Decided(q) /\ q.keyRes = "key"

\* C17: the logout step changes nothing of the server's state (environment,
\* JWKS client, store), and a later request with the token that was logged
\* out, unexpired, is accepted as it was before: next() once, req.user set,
\* the route's handler reached
C17_LogoutStateless ==
  /\ [][\A r \in Reqs :
          HandlerStep(r, "POST /logout") => UNCHANGED <<env, client, users>>]_vars
  /\ [](\A r \in Reqs :
          AfterLogout(reqs[r]) =>
            /\ reqs[r].nextCalls = 1
            /\ reqs[r].user # None
            /\ reqs[r].user[1].keycloakId = reqs[r].tok.payload.sub
            /\ reqs[r].pc = "done" => reqs[r].handlerRan)

\* C17 witness: GET /me with a token that was logged out before was
\* answered 200 with the caller's record
C17_Witness ==
  /\ reqs[1].route = "GET /me" /\ reqs[1].pc = "done"
  /\ AfterLogout(reqs[1])
  /\ reqs[1].sent[1].status = 200
  /\ reqs[1].sent[1].data[1].keycloakId = "u1"

\* C18: when the data store fails a handler, the request ends with exactly
\* one response, the error envelope (success false, a message), and the
\* failure does not leave the handler
C18_StoreFailureEnvelope ==
  \A r \in Reqs :
    LET q == reqs[r]
    IN /\ q.pc # "thrown"
       /\ q.dbRes \in {"error", "E11000"} =>
            /\ q.pc = "done" /\ q.nextCalls = 1 /\ q.handlerRan
            /\ Len(q.sent) = 1
            /\ ~q.sent[1].success
            /\ q.sent[1].status = 500
            /\ q.sent[1].message \notin {UNDEF, ""}
            /\ q.sent[1].error \notin {UNDEF, ""}

\* C18 witness: the find of a listing returned two records, its count
\* failed, and the request ended with the error envelope
C18_Witness ==
  /\ reqs[1].route = "GET /" /\ reqs[1].pc = "done"
  /\ reqs[1].dbRes = "error" /\ Len(reqs[1].found) = 2
  /\ reqs[1].sent[1].message = "Failed to retrieve users"

(***************************************************************************)
(* Properties of the listing                                               *)
(***************************************************************************)
\* GET / of request r has been answered with a page
Listed(q) == q.route = "GET /" /\ q.pc = "done" /\ q.sent[1].status = 200

\* C14 as claimed: no response of GET / carries more than 100 records
C14_AtMost100 ==
  \A r \in Reqs : Listed(reqs[r]) => Len(reqs[r].sent[1].data) <= 100

\* the page and the limit a query asks for: the number it gives, or 1 and
\* 10 when it gives none
AskedPage(q) == IF q.query.page = UNDEF THEN 1 ELSE parseIntOr(q.query.page, 0)
AskedLimit(q) == IF q.query.limit = UNDEF THEN 10 ELSE parseIntOr(q.query.limit, 0)

C21_ListenAfterConnect ==
  /\ proc.listened => proc.db = "connected"
  /\ proc.state = "listening" => proc.listened
  /\ (\E r \in Reqs : reqs[r].pc # "idle") => proc.state = "listening"
  /\ proc.db = "failed" =>
       /\ proc.state = "exited"
       /\ proc.code # None /\ proc.code # Some(0)
       /\ ~proc.listened

\* C21 witness: the connection attempt failed and the process has ended
\* with exit code 1
C21_Witness ==
  /\ proc.db = "failed"
  /\ proc.state = "exited"
  /\ proc.code = Some(1)
  /\ ~proc.listened

(***************************************************************************)
(* Properties of the JWKS client                                           *)
(***************************************************************************)
\* C30: whatever requests arrive and however they interleave, the process
\* builds at most one JWKS client: the first key resolution builds it and
\* every key resolution that is in progress runs on that one client
C30_OneJwksClient ==
  /\ made <= 1
  /\ client = "created" <=> made = 1
  /\ \A r \in Reqs : reqs[r].pc = "key" => client = "created" /\ made = 1

\* C30 witness: two key resolutions are in progress at the same time and
\* one client has been built
C30_Witness ==
  /\ reqs[1].pc = "key"
  /\ reqs[2].pc = "key"
  /\ made = 1

(***************************************************************************)
(* Properties of the store across the routes                               *)
(***************************************************************************)
\* the positions of docs2 that docs lacks or holds with another value
ChangedIn(docs, docs2) ==
  { i \in 1..Len(docs2) : i > Len(docs) \/ docs2[i] # docs[i] }

\* request r takes a step on one of the routes
StepOn(r, routes) ==
  /\ reqs'[r] # reqs[r]
  /\ reqs[r].route \in routes \/ reqs'[r].route \in routes

\* C22: a step changes at most one record, and only in a step of GET /me,
\* PUT /me or DELETE /me of a request whose verified token has the
\* record's keycloakId as its sub; the steps of GET /:id, GET /,
\* POST /logout and the health routes leave the whole store as it was
C22_SubjectFrame ==
  [][/\ Len(users') >= Len(users)
     /\ Cardinality(ChangedIn(users, users')) <= 1
     /\ \A i \in ChangedIn(users, users') :
          \E r \in Reqs :
            /\ StepOn(r, {"GET /me", "PUT /me", "DELETE /me"})
            /\ reqs[r].nextCalls = 1
            /\ SignedToken(reqs[r])
            /\ users'[i].keycloakId = reqs[r].tok.payload.sub
            /\ i <= Len(users) => users[i].keycloakId = reqs[r].tok.payload.sub
     /\ \A r \in Reqs :
          StepOn(r, {"GET /:id", "GET /", "POST /logout"} \cup HealthRoutes) =>
            users' = users]_vars

\* C22 witness: PUT /me of subject u2 has changed a record while the record
\* of subject u1 is stored beside it
C22_Witness ==
  /\ reqs[1].route = "PUT /me"
  /\ reqs[1].pc = "done"
  /\ reqs[1].sent[1].status = 200
  /\ reqs[1].tok.payload.sub = "u2"
  /\ DocsOf("u1") # {}
  /\ \E i \in DocsOf("u2") : users[i].firstName = "Zed"

(***************************************************************************)
(* Properties of the synchronization                                       *)
(***************************************************************************)
\* request r takes the step in which GET /me answers 200
SyncAnswers(r) ==
  /\ reqs[r].route = "GET /me"
  /\ reqs[r].pc \in {"next", "insert"}
  /\ reqs'[r].pc = "done"
  /\ reqs'[r].sent[1].status = 200

\* the trimmed text of a name claim
NameOf(claim) == IF claim = UNDEF THEN UNDEF ELSE Trim(claim)

\* C23: every GET /me that answers 200 leaves the firstName and lastName of
\* the caller's record equal to the (trimmed) given_name and family_name
\* claims of its token, whatever the record held before: a name set by
\* PUT /me lasts until the next synchronization
C23_SyncOverwritesNames ==
  [][\A r \in Reqs :
       SyncAnswers(r) =>
         LET i == findOne(users', reqs[r].tok.payload.sub)
         IN /\ i # 0
            /\ users'[i].firstName = NameOf(reqs[r].tok.payload.given_name)
            /\ users'[i].lastName = NameOf(reqs[r].tok.payload.family_name)
            /\ reqs'[r].sent[1].data = Some(users'[i])]_vars

\* C23 witness: PUT /me has answered with firstName "Zed" and GET /me with
\* the given_name of the token, which is what the record holds
C23_Witness ==
  /\ reqs[2].route = "PUT /me" /\ reqs[2].pc = "done"
  /\ reqs[2].sent[1].status = 200
  /\ reqs[2].sent[1].data[1].firstName = "Zed"
  /\ reqs[1].route = "GET /me" /\ reqs[1].pc = "done"
  /\ reqs[1].sent[1].status = 200
  /\ reqs[1].sent[1].data[1].firstName = "Al"
  /\ \E i \in DocsOf("u1") : users[i].firstName = "Al"

\* the caller of verified request q has a record that is not enabled
CallerDisabled(q) ==
  /\ q.user # None
  /\ \E i \in DocsOf(q.user[1].keycloakId) : ~users[i].enabled

\* C24: every GET /me that answers 200 leaves the caller's record enabled,
\* a record that DELETE /me had disabled too; and a verified request of a
\* caller whose record is not enabled is never answered 401 or 403 by its
\* handler: on GET, PUT and DELETE /me it is answered 200 when the store
\* answers
C24_SyncEnables ==
  /\ [][\A r \in Reqs :
          SyncAnswers(r) =>
            \A i \in 1..Len(users') :
              users'[i].keycloakId = reqs[r].tok.payload.sub => users'[i].enabled]_vars
  /\ [][\A r \in Reqs :
          (/\ reqs[r].pc \in {"next", "insert", "count"}
           /\ reqs'[r].pc = "done"
           /\ CallerDisabled(reqs[r])) =>
            /\ reqs'[r].sent[1].status \notin {401, 403}
            /\ (/\ reqs[r].route \in {"GET /me", "PUT /me", "DELETE /me"}
                /\ reqs'[r].dbRes = "ok") => reqs'[r].sent[1].status = 200]_vars

\* C24 witness: DELETE /me has answered 200 and GET /me of the same subject
\* after it too, and the record is enabled
C24_Witness ==
  /\ reqs[2].route = "DELETE /me" /\ reqs[2].pc = "done"
  /\ reqs[2].sent[1].status = 200
  /\ reqs[1].route = "GET /me" /\ reqs[1].pc = "done"
  /\ reqs[1].sent[1].status = 200
  /\ reqs[1].sent[1].data[1].enabled
  /\ \E i \in DocsOf("u1") : users[i].enabled

(***************************************************************************)
(* Properties of the frontend                                              *)
(***************************************************************************)
\* C25: Dashboard and Profile, the children of ProtectedRoute, are on the
\* screen only when isLoading is false and isAuthenticated is true; when
\* isLoading and isAuthenticated are both false the route has redirected
\* to /login
C25_ProtectedRoute ==
  /\ browser.view \in {"Dashboard", "Profile"} =>
       ~auth.isLoading /\ auth.isAuthenticated
  /\ (~auth.isLoading /\ ~auth.isAuthenticated) =>
       browser.path = "/login" /\ browser.view = "Login"

\* C25 witness: the thunk has settled with isAuthenticated false, and the
\* protected route the application was opened at has redirected to /login
C25_Witness ==
  /\ thunks.initializeKeycloak.pc = "settled"
  /\ ~auth.isLoading /\ ~auth.isAuthenticated
  /\ browser.path = "/login"
  /\ browser.left = ""

\* the responses that are inside the handling of the response interceptor
Handling == { c \in Calls : calls[c].pc = "refresh" }

\* C26: at most one 401 response is inside the refresh-then-logout handling
\* of the response interceptor at a time
C26_MutualExclusion == Cardinality(Handling) <= 1

\* C27: once initializeKeycloak has settled, isAuthenticated is true only
\* with a token in the state
C27_AuthenticatedHasToken ==
  (thunks.initializeKeycloak.pc = "settled" /\ auth.isAuthenticated) =>
    auth.token \notin {"null", UNDEF}

\* keycloak-js has given the thunk the last answer it waits for
KeycloakReturned ==
  LET t == thunks.initializeKeycloak
  IN \/ t.pc = "initDone" /\ ~(t.authenticated = "true" /\ keycloakInstance.token = UNDEF)
     \/ t.pc = "refreshDone"

\* C28: whatever keycloak-js has answered (authenticated, not
\* authenticated, a rejection of init, a rejection of the token refresh),
\* isLoading becomes false, and it is false once the thunk has settled
C28_LoadingEnds ==
  /\ KeycloakReturned ~> ~auth.isLoading
  /\ [](thunks.initializeKeycloak.pc = "settled" => ~auth.isLoading)

\* C28 witness: the token refresh of the thunk was rejected, the thunk has
\* settled and isLoading is false
C28_Witness ==
  /\ thunks.initializeKeycloak.pc = "settled"
  /\ thunks.initializeKeycloak.authenticated = "throws"
  /\ thunks.interceptors
  /\ ~auth.isLoading

\* C29: the step in which the logout thunk ends leaves isAuthenticated
\* false, token null and user null, and has called keycloak.logout when the
\* state held a Keycloak instance, whatever became of the backend call
C29_LogoutClears ==
  [][(thunks.logout.pc # "done" /\ thunks'.logout.pc = "done") =>
       /\ ~auth'.isAuthenticated
       /\ auth'.token = "null"
       /\ auth'.user = "null"
       /\ thunks'.logout.keycloak # "null" => browser'.left = "logout"]_vars

\* C29 witness: the backend call of the logout thunk failed with 500, the
\* state is cleared and keycloak.logout called
C29_Witness ==
  /\ thunks.logout.pc = "done"
  /\ thunks.logout.status = 500
  /\ thunks.logout.keycloak = "instance"
  /\ ~auth.isAuthenticated /\ auth.token = "null" /\ auth.user = "null"
  /\ browser.left = "logout"
====
